---- MODULE Spec2Model ----
(***************************************************************************)
(* Corrugated-sphere WebGL viewer: the geometry generation pipeline        *)
(* (CreateSurfaceData), the Model upload/draw object and the slider-driven *)
(* rebuild loop.                                                           *)
(*                                                                         *)
(* Numbers.  JavaScript doubles are modelled in binary fixed point with    *)
(* Scale = 2^12 units per 1.0.  Angles in degrees are plain integers.      *)
(* Math.sin/Math.cos are tabulated at the multiples of 3 degrees, which    *)
(* covers every lattice angle for resolutions 1..6.  NaN and Infinity are  *)
(* two reserved integers outside the range of every computed value.        *)
(* Arrays are sequences; element i of a JavaScript array is element i+1    *)
(* of the sequence (operator At).                                          *)
(***************************************************************************)
EXTENDS Integers, Sequences, FiniteSets, TLC

(***************************************************************************)
(* Bounds of the model.                                                    *)
(***************************************************************************)
MaxCount == 4

(***************************************************************************)
(* Fixed-point arithmetic standing for IEEE doubles.                       *)
(***************************************************************************)
Scale == 2^12
NaN == 0 - 2^30
Inf == 2^30
PI == 12868

IsNum(x) == x # NaN /\ x # Inf

AbsI(x) == IF x < 0 THEN 0 - x ELSE x

\* division rounded to nearest, symmetric in the sign of the dividend (d > 0)
RDiv(x, d) == IF x < 0 THEN 0 - ((2 * (0 - x) + d) \div (2 * d))
                       ELSE (2 * x + d) \div (2 * d)

\* x + y on doubles
FAdd(x, y) == IF x = NaN \/ y = NaN THEN NaN ELSE x + y

\* x - y on doubles
FSub(x, y) == IF x = NaN \/ y = NaN THEN NaN ELSE x - y

\* x * y on doubles (both fixed point)
FMul(x, y) == IF x = NaN \/ y = NaN THEN NaN ELSE RDiv(x * y, Scale)

\* x / y on doubles (both fixed point, y # 0)
FDiv(x, y) == IF x = NaN \/ y = NaN THEN NaN
              ELSE IF y < 0 THEN RDiv(0 - (x * Scale), 0 - y)
              ELSE RDiv(x * Scale, y)

\* Math.abs
MathAbs(x) == IF x = NaN THEN NaN ELSE AbsI(x)

\* Math.sqrt on a non-negative integer: the largest r with r*r <= x
RECURSIVE SqrtIter(_, _, _)
SqrtIter(x, lo, hi) ==
    IF lo >= hi THEN lo
    ELSE LET mid == (lo + hi + 1) \div 2
         IN  IF mid * mid <= x THEN SqrtIter(x, mid, hi)
                               ELSE SqrtIter(x, lo, mid - 1)

MathSqrt(x) == SqrtIter(x, 0, 46340)

\* Math.sin at k*3 degrees, k in 0..30, in fixed point
SinTab == << 0, 214, 428, 641, 852, 1060, 1266, 1468, 1666, 1860, 2048,
             2231, 2408, 2578, 2741, 2896, 3044, 3183, 3314, 3435, 3547,
             3650, 3742, 3824, 3896, 3956, 4006, 4046, 4074, 4090, 4096 >>

\* sine of k*3 degrees for any integer k (120 steps per turn)
SinStep(k) ==
    LET m == k % 120
    IN  IF m <= 30 THEN SinTab[m + 1]
        ELSE IF m <= 60 THEN SinTab[(60 - m) + 1]
        ELSE IF m <= 90 THEN 0 - SinTab[(m - 60) + 1]
        ELSE 0 - SinTab[(120 - m) + 1]

\* the number of 3-degree steps nearest to an angle given in radians
AngleStep(x) == RDiv(x * 60, PI)

\* Math.sin, Math.cos
MathSin(x) == IF x = NaN THEN NaN ELSE SinStep(AngleStep(x))
MathCos(x) == IF x = NaN THEN NaN ELSE SinStep(AngleStep(x) + 30)

(***************************************************************************)
(* Array helpers.                                                          *)
(***************************************************************************)
At(arr, i) == arr[i + 1]

\* JavaScript is strict: a value is computed before it is passed on
Computed(val) == val = val

\* the array with the elements of a function on 1..k
ArrayOf(fn) == SubSeq(fn, 1, Len(fn))

\* Array.prototype.flat, one level
RECURSIVE Flat(_)
Flat(rows) == IF rows = << >> THEN << >> ELSE Head(rows) \o Flat(Tail(rows))

(***************************************************************************)
(* m4 vector helpers (webgl-3d-math), on triples.                          *)
(***************************************************************************)
subtractVectors(p, q) == << FSub(p[1], q[1]), FSub(p[2], q[2]), FSub(p[3], q[3]) >>

addVectors(p, q) == << FAdd(p[1], q[1]), FAdd(p[2], q[2]), FAdd(p[3], q[3]) >>

scaleVector(p, s) == << FMul(p[1], s), FMul(p[2], s), FMul(p[3], s) >>

cross(p, q) == << FSub(FMul(p[2], q[3]), FMul(p[3], q[2])),
                  FSub(FMul(p[3], q[1]), FMul(p[1], q[3])),
                  FSub(FMul(p[1], q[2]), FMul(p[2], q[1])) >>

\* m4.length: sqrt(x*x + y*y + z*z)
length(p) == MathSqrt(p[1] * p[1] + p[2] * p[2] + p[3] * p[3])

\* m4.normalize: v / |v| when |v| > 0.00001, else the zero vector
normalize(p) ==
    LET len == length(p)
    IN  IF len >= 1
        THEN << RDiv(p[1] * Scale, len), RDiv(p[2] * Scale, len), RDiv(p[3] * Scale, len) >>
        ELSE << 0, 0, 0 >>

(***************************************************************************)
(* model.js / part_000 / part_001: geometry helpers.                       *)
(***************************************************************************)
\* Convert degrees to radians
deg2rad(angle) == IF angle = NaN THEN NaN ELSE RDiv(angle * PI, 180)

\* number / count on degrees: Infinity when the count is zero
DegStep(range, count) == IF count = 0 THEN Inf ELSE range \div count

\* degMin + i * step on degrees: 0 * Infinity is NaN
DegAt(degMin, i, step) ==
    IF step = Inf THEN (IF i = 0 THEN NaN ELSE Inf) ELSE degMin + i * step

\* "Corrugated sphere" parameters
R == Scale
a == 983
n == 6

\* [x, y, z] of one lattice point from its radial distance
PointAt(radial, uRad, vRad) ==
    << FMul(radial, MathCos(uRad)), FMul(radial, MathSin(uRad)), FMul(R, MathSin(vRad)) >>

\* one lattice point [x, y, z] for angles in radians
SurfacePoint(uRad, vRad) ==
    PointAt(FAdd(FMul(R, MathCos(vRad)),
                 FMul(FMul(a, FSub(Scale, MathSin(vRad))),
                      MathAbs(MathCos(IF uRad = NaN THEN NaN ELSE n * uRad)))),
            uRad, vRad)

\* the angle arrays
VAngles(vCount) ==
    LET stepV == DegStep(90 - (0 - 90), vCount)
    IN  ArrayOf([k \in 1..(vCount + 1) |-> deg2rad(DegAt(0 - 90, k - 1, stepV))])

\* variant: the u range divided into uCount + 1 steps, the last column short of 360
UAngles_OpenEnd(uCount) ==
    LET stepU == DegStep(360 - 0, uCount + 1)
    IN  ArrayOf([k \in 1..(uCount + 1) |-> deg2rad(DegAt(0, k - 1, stepU))])

UAngles(uCount) ==
    LET stepU == DegStep(360 - 0, uCount)
    IN  ArrayOf([k \in 1..(uCount + 1) |-> deg2rad(DegAt(0, k - 1, stepU))])

\* the (vCount+1) x (uCount+1) grid of positions: vAngles.map(uAngles.map(...))
VertexGrid(vAngles, uAngles) ==
    ArrayOf([kv \in 1..Len(vAngles) |->
        ArrayOf([ku \in 1..Len(uAngles) |-> SurfacePoint(uAngles[ku], vAngles[kv])])])

\* variant: a row stride of uCount, the seam column folded into the next row
indexOf_NoSeam(uCount, iv, iu) == iv * uCount + iu

indexOf(uCount, iv, iu) == iv * (uCount + 1) + iu

\* the two nested for loops pushing two triangles per cell
RECURSIVE FacesLoop(_, _, _, _, _)
FacesLoop(uCount, vCount, iv, iu, faces) ==
    IF Computed(faces) /\ ~(iv < vCount) THEN faces
    ELSE IF ~(iu < uCount) THEN FacesLoop(uCount, vCount, iv + 1, 0, faces)
    ELSE LET i0 == indexOf(uCount, iv, iu)
             i1 == indexOf(uCount, iv, iu + 1)
             i2 == indexOf(uCount, iv + 1, iu)
             i3 == indexOf(uCount, iv + 1, iu + 1)
         IN  FacesLoop(uCount, vCount, iv, iu + 1,
                       faces \o << << i0, i2, i1 >>, << i1, i2, i3 >> >>)

\* variant: the outer loop starting at row 1
Faces_SkipRow(uCount, vCount) == FacesLoop(uCount, vCount, 1, 0, << >>)

Faces(uCount, vCount) == FacesLoop(uCount, vCount, 0, 0, << >>)


(***************************************************************************)
(* Weighted-average vertex normals.                                        *)
(***************************************************************************)
\* Compute a single triangle's face normal (unit vector) and the face area.
\* The test area < 1e-14 is area < 1 unit of the fixed point.
NormalAndArea(cr, area) ==
    IF area < 1
    THEN [normal |-> << 0, 0, 1 * Scale >>, area |-> 0]
    ELSE [normal |-> normalize(cr), area |-> area]

\* the cross product of the two edges, then its half length as the area
CrossAndArea(cr) == NormalAndArea(cr, (length(cr) + 1) \div 2)

computeFaceNormalAndArea(p0, p1, p2) ==
    CrossAndArea(cross(subtractVectors(p1, p0), subtractVectors(p2, p0)))

\* [iA, iB, iC].forEach(idx => accumNormals[idx] += normal * area)
RECURSIVE AccumCorners(_, _, _, _, _)
AccumCorners(accum, face, c, normal, area) ==
    IF c > 3 THEN accum
    ELSE LET idx    == face[c]
             scaled == scaleVector(normal, area)
         IN  AccumCorners([accum EXCEPT ![idx + 1] = addVectors(accum[idx + 1], scaled)],
                          face, c + 1, normal, area)

\* the body of faces.forEach(([iA, iB, iC]) => ...) of the accumulation
AccumScaled(accum, face, na) == AccumCorners(accum, face, 1, na.normal, na.area)

AccumFace(flatGrid, face, accum) ==
    AccumScaled(accum, face,
                computeFaceNormalAndArea(At(flatGrid, face[1]),
                                         At(flatGrid, face[2]),
                                         At(flatGrid, face[3])))

\* faces.forEach: the iterations for faces lo .. hi-1, in order
RECURSIVE AccumLoop(_, _, _, _, _)
AccumLoop(flatGrid, faces, lo, hi, accum) ==
    IF Computed(accum) /\ hi <= lo THEN accum
    ELSE IF hi = lo + 1 THEN AccumFace(flatGrid, At(faces, lo), accum)
    ELSE LET mid == (lo + hi) \div 2
         IN  AccumLoop(flatGrid, faces, mid, hi, AccumLoop(flatGrid, faces, lo, mid, accum))

AccumNormals(flatGrid, faces) ==
    AccumLoop(flatGrid, faces, 0, Len(faces), [i \in 1..Len(flatGrid) |-> << 0, 0, 0 >>])

NormalizedNormals(accumNormals) ==
    ArrayOf([k \in 1..Len(accumNormals) |-> normalize(accumNormals[k])])

(***************************************************************************)
(* Texture coordinates and face tangents (part_000, part_001).             *)
(***************************************************************************)
\* variant: the v angle divided by pi without the shift by pi/2
paramToUV_NoShift(vAngles, uAngles, iv, iu) ==
    LET vRad == At(vAngles, iv)
        uRad == At(uAngles, iu)
    IN  << FDiv(uRad, 2 * PI), FDiv(vRad, PI) >>

\* uCoord = uRad / (2 pi), vCoord = (vRad + pi/2) / pi
paramToUV(vAngles, uAngles, iv, iu) ==
    LET vRad == At(vAngles, iv)
        uRad == At(uAngles, iu)
    IN  << FDiv(uRad, 2 * PI), FDiv(FAdd(vRad, PI \div 2), PI) >>

\* tx, ty, tz of a face tangent from f = 1.0 / f
TangentScaled(finv, edge1, edge2, deltaUV1, deltaUV2) ==
    << FMul(finv, FMul(edge1[1], deltaUV2[2]) - FMul(edge2[1], deltaUV1[2])),
       FMul(finv, FMul(edge1[2], deltaUV2[2]) - FMul(edge2[2], deltaUV1[2])),
       FMul(finv, FMul(edge1[3], deltaUV2[2]) - FMul(edge2[3], deltaUV1[2])) >>

\* the fallback test on f.  |f| < 1e-14 is |f| < 1 unit.
TangentFrom(f, edge1, edge2, deltaUV1, deltaUV2) ==
    IF AbsI(f) < 1
    THEN << 1 * Scale, 0, 0 >>
    ELSE TangentScaled(FDiv(Scale, f), edge1, edge2, deltaUV1, deltaUV2)

\* variant: the two products of the determinant added
UVDeterminant_Sum(deltaUV1, deltaUV2) ==
    FMul(deltaUV1[1], deltaUV2[2]) + FMul(deltaUV1[2], deltaUV2[1])

\* let f = deltaUV1[0] * deltaUV2[1] - deltaUV1[1] * deltaUV2[0]
UVDeterminant(deltaUV1, deltaUV2) ==
    FMul(deltaUV1[1], deltaUV2[2]) - FMul(deltaUV1[2], deltaUV2[1])

TangentOfEdges(edge1, edge2, deltaUV1, deltaUV2) ==
    TangentFrom(UVDeterminant(deltaUV1, deltaUV2), edge1, edge2, deltaUV1, deltaUV2)

\* Compute tangents for each face.
computeFaceTangent(p0, p1, p2, uv0, uv1, uv2) ==
    TangentOfEdges(subtractVectors(p1, p0), subtractVectors(p2, p0),
                   << uv1[1] - uv0[1], uv1[2] - uv0[2] >>,
                   << uv2[1] - uv0[1], uv2[2] - uv0[2] >>)

\* variant: the two texture coordinates stored in each other's field
FlatVertex_SwapUV(px, py, pz, nx, ny, nz, tx, ty, tz, u, v) ==
    [x |-> px, y |-> py, z |-> pz, nx |-> nx, ny |-> ny, nz |-> nz,
     tx |-> tx, ty |-> ty, tz |-> tz, u |-> v, v |-> u]

\* new FlatVertex(px, py, pz, nx, ny, nz, tx, ty, tz, u, v)
FlatVertex(px, py, pz, nx, ny, nz, tx, ty, tz, u, v) ==
    [x |-> px, y |-> py, z |-> pz, nx |-> nx, ny |-> ny, nz |-> nz,
     tx |-> tx, ty |-> ty, tz |-> tz, u |-> u, v |-> v]

(***************************************************************************)
(* Flat-shading expansion (part_001: faces.forEach, lines 249-296).        *)
(***************************************************************************)
\* the three pushes of one face: a FlatVertex and idxCounter++ per corner
RECURSIVE PushCorners(_, _, _)
PushCorners(acc, elems, c) ==
    IF c > Len(elems) THEN acc
    ELSE LET pos == elems[c][1]
             nor == elems[c][2]
             tan == elems[c][3]
             uv  == elems[c][4]
         IN  PushCorners([flatVertices |-> Append(acc.flatVertices,
                                 FlatVertex(pos[1], pos[2], pos[3],
                                            nor[1], nor[2], nor[3],
                                            tan[1], tan[2], tan[3],
                                            uv[1], uv[2])),
                          flatIndices  |-> Append(acc.flatIndices, acc.idxCounter),
                          idxCounter   |-> acc.idxCounter + 1],
                         elems, c + 1)

\* variant: every corner keeps the smoothed normal of its own lattice vertex
ReplicateCorners_Smooth(acc, pA, pB, pC, nA, nB, nC, faceNormal, faceTangent, uvA, uvB, uvC) ==
    PushCorners(acc, << << pA, nA, faceTangent, uvA >>,
                        << pB, nB, faceTangent, uvB >>,
                        << pC, nC, faceTangent, uvC >> >>, 1)

\* Replicate each corner with the face normal, face tangent, and local UV
ReplicateCorners(acc, pA, pB, pC, nA, nB, nC, faceNormal, faceTangent, uvA, uvB, uvC) ==
    PushCorners(acc, << << pA, faceNormal, faceTangent, uvA >>,
                        << pB, faceNormal, faceTangent, uvB >>,
                        << pC, faceNormal, faceTangent, uvC >> >>, 1)

\* the face normal from the three smoothed normals, the face tangent
FaceAttributes(acc, pA, pB, pC, nA, nB, nC, uvA, uvB, uvC) ==
    ReplicateCorners(acc, pA, pB, pC, nA, nB, nC,
                     normalize(addVectors(addVectors(nA, nB), nC)),
                     normalize(computeFaceTangent(pA, pB, pC, uvA, uvB, uvC)),
                     uvA, uvB, uvC)

\* the body of faces.forEach(([iA, iB, iC]) => ...) for one face
ExpandFace(acc, face, uCount, flatGrid, normalizedNormals, vAngles, uAngles) ==
    FaceAttributes(acc,
        At(flatGrid, face[1]), At(flatGrid, face[2]), At(flatGrid, face[3]),
        At(normalizedNormals, face[1]), At(normalizedNormals, face[2]),
        At(normalizedNormals, face[3]),
        paramToUV(vAngles, uAngles, face[1] \div (uCount + 1), face[1] % (uCount + 1)),
        paramToUV(vAngles, uAngles, face[2] \div (uCount + 1), face[2] % (uCount + 1)),
        paramToUV(vAngles, uAngles, face[3] \div (uCount + 1), face[3] % (uCount + 1)))

\* faces.forEach: the iterations for faces lo .. hi-1, in order
RECURSIVE ExpandLoop(_, _, _, _, _, _, _, _, _)
ExpandLoop(acc, faces, lo, hi, uCount, flatGrid, normalizedNormals, vAngles, uAngles) ==
    IF Computed(acc) /\ hi <= lo THEN acc
    ELSE IF hi = lo + 1
         THEN ExpandFace(acc, At(faces, lo), uCount, flatGrid, normalizedNormals,
                         vAngles, uAngles)
    ELSE LET mid == (lo + hi) \div 2
         IN  ExpandLoop(ExpandLoop(acc, faces, lo, mid, uCount, flatGrid,
                                   normalizedNormals, vAngles, uAngles),
                        faces, mid, hi, uCount, flatGrid, normalizedNormals,
                        vAngles, uAngles)

(***************************************************************************)
(* Typed arrays.                                                           *)
(***************************************************************************)
\* the power of two by which a magnitude exceeds 24 significant bits
RECURSIVE FroundUlp(_, _)
FroundUlp(m, ulp) == IF m < 2^24 * ulp THEN ulp ELSE FroundUlp(m, 2 * ulp)

\* storing a double into a Float32Array: rounding to 24 significant bits
Fround(x) == IF x = NaN THEN NaN
             ELSE LET ulp == FroundUlp(AbsI(x), 1) IN RDiv(x, ulp) * ulp

\* storing a number into a Uint16Array: modulo 2^16
IndexModulus == 2^16
\* variant: a 32-bit index array, wide enough for every counter value here
ToUint16_Wide(x) == x % 2^30

ToUint16(x) == x % IndexModulus

\* new Float32Array(len): zero filled
Float32Zeros(len) == [i \in 1..len |-> 0]

\* variant: the x and y components of a position stored in each other's slot
PackVertex_SwapXY(fv, i, arrs) ==
    [positions |-> [arrs.positions EXCEPT ![3 * i + 0 + 1] = Fround(fv.y),
                                          ![3 * i + 1 + 1] = Fround(fv.x),
                                          ![3 * i + 2 + 1] = Fround(fv.z)],
     normals   |-> [arrs.normals EXCEPT ![3 * i + 0 + 1] = Fround(fv.nx),
                                        ![3 * i + 1 + 1] = Fround(fv.ny),
                                        ![3 * i + 2 + 1] = Fround(fv.nz)],
     tangents  |-> [arrs.tangents EXCEPT ![3 * i + 0 + 1] = Fround(fv.tx),
                                         ![3 * i + 1 + 1] = Fround(fv.ty),
                                         ![3 * i + 2 + 1] = Fround(fv.tz)],
     texcoords |-> [arrs.texcoords EXCEPT ![2 * i + 0 + 1] = Fround(fv.u),
                                          ![2 * i + 1 + 1] = Fround(fv.v)]]

\* the body of flatVertices.forEach((fv, i) => { positions[3*i+0] = fv.x; ... })
PackVertex(fv, i, arrs) ==
    [positions |-> [arrs.positions EXCEPT ![3 * i + 0 + 1] = Fround(fv.x),
                                          ![3 * i + 1 + 1] = Fround(fv.y),
                                          ![3 * i + 2 + 1] = Fround(fv.z)],
     normals   |-> [arrs.normals EXCEPT ![3 * i + 0 + 1] = Fround(fv.nx),
                                        ![3 * i + 1 + 1] = Fround(fv.ny),
                                        ![3 * i + 2 + 1] = Fround(fv.nz)],
     tangents  |-> [arrs.tangents EXCEPT ![3 * i + 0 + 1] = Fround(fv.tx),
                                         ![3 * i + 1 + 1] = Fround(fv.ty),
                                         ![3 * i + 2 + 1] = Fround(fv.tz)],
     texcoords |-> [arrs.texcoords EXCEPT ![2 * i + 0 + 1] = Fround(fv.u),
                                          ![2 * i + 1 + 1] = Fround(fv.v)]]

\* flatVertices.forEach: the iterations for i in lo .. hi-1, in order
RECURSIVE PackLoop(_, _, _, _)
PackLoop(flatVertices, lo, hi, arrs) ==
    IF Computed(arrs) /\ hi <= lo THEN arrs
    ELSE IF hi = lo + 1 THEN PackVertex(At(flatVertices, lo), lo, arrs)
    ELSE LET mid == (lo + hi) \div 2
         IN  PackLoop(flatVertices, mid, hi, PackLoop(flatVertices, lo, mid, arrs))

\* new Uint16Array(flatIndices)
Uint16Array(flatIndices) ==
    ArrayOf([i \in 1..Len(flatIndices) |-> ToUint16(flatIndices[i])])

(***************************************************************************)
(* parseInt on a string of decimal digits (a sequence of digits 0..9).     *)
(***************************************************************************)
RECURSIVE ParseDigits(_, _, _)
ParseDigits(str, k, acc) ==
    IF k > Len(str) THEN acc ELSE ParseDigits(str, k + 1, 10 * acc + str[k])

parseInt(str) == IF str = << >> THEN NaN ELSE ParseDigits(str, 1, 0)

\* the decimal string of a natural number, as the DOM stores a value
RECURSIVE DigitsOf(_)
DigitsOf(k) == IF k < 10 THEN << k >> ELSE Append(DigitsOf(k \div 10), k % 10)

(***************************************************************************)
(* CreateSurfaceData(data), part_001 lines 166-318: the locals of one call *)
(* and the five arrays it attaches to data.                                *)
(***************************************************************************)
\* 7) Return data (with the locals of the call)
ReturnData(vCount, uCount, vAngles, uAngles, vertexGrid, faces, normalizedNormals, flat, arrs) ==
    [vCount |-> vCount, uCount |-> uCount,
     vAngles |-> vAngles, uAngles |-> uAngles,
     vertexGrid |-> vertexGrid, faces |-> faces,
     normalizedNormals |-> normalizedNormals,
     flatVertices |-> flat.flatVertices, flatIndices |-> flat.flatIndices,
     error |-> "none",
     data |-> [positions |-> arrs.positions, normals |-> arrs.normals,
               tangents |-> arrs.tangents, texcoords |-> arrs.texcoords,
               indices |-> Uint16Array(flat.flatIndices)]]

\* 6) Convert to typed arrays
TypedArrays(vCount, uCount, vAngles, uAngles, vertexGrid, faces, normalizedNormals, flat) ==
    ReturnData(vCount, uCount, vAngles, uAngles, vertexGrid, faces, normalizedNormals,
               flat,
               PackLoop(flat.flatVertices, 0, Len(flat.flatVertices),
                        [positions |-> Float32Zeros(Len(flat.flatVertices) * 3),
                         normals   |-> Float32Zeros(Len(flat.flatVertices) * 3),
                         tangents  |-> Float32Zeros(Len(flat.flatVertices) * 3),
                         texcoords |-> Float32Zeros(Len(flat.flatVertices) * 2)]))

\* 5) For Flat Shading
FlatShading(vCount, uCount, vAngles, uAngles, vertexGrid, flatGrid, faces, normalizedNormals) ==
    TypedArrays(vCount, uCount, vAngles, uAngles, vertexGrid, faces, normalizedNormals,
                ExpandLoop([flatVertices |-> << >>, flatIndices |-> << >>,
                            idxCounter |-> 0],
                           faces, 0, Len(faces), uCount, flatGrid, normalizedNormals,
                           vAngles, uAngles))

\* Weighted-average vertex normals
VertexNormals(vCount, uCount, vAngles, uAngles, vertexGrid, flatGrid, faces) ==
    FlatShading(vCount, uCount, vAngles, uAngles, vertexGrid, flatGrid, faces,
                NormalizedNormals(AccumNormals(flatGrid, faces)))

\* 4) Face indices
FaceIndices(vCount, uCount, vAngles, uAngles, vertexGrid) ==
    VertexNormals(vCount, uCount, vAngles, uAngles, vertexGrid, Flat(vertexGrid),
                  Faces(uCount, vCount))

\* 3) Build vertex grid
BuildVertexGrid(vCount, uCount, vAngles, uAngles) ==
    FaceIndices(vCount, uCount, vAngles, uAngles, VertexGrid(vAngles, uAngles))

\* 2) Parameter ranges and angle arrays
ParameterRanges(vCount, uCount) ==
    BuildVertexGrid(vCount, uCount, VAngles(vCount), UAngles(uCount))

\* 1) get user resolution
CreateSurfaceData(vSliderValue, uSliderValue) ==
    ParameterRanges(parseInt(vSliderValue), parseInt(uSliderValue))

(***************************************************************************)
(* The index path of CreateSurfaceData on its own: flatIndices receives    *)
(* idxCounter++ once per corner of each of the 2*uCount*vCount faces, and  *)
(* is then converted by new Uint16Array.  Used for resolutions whose       *)
(* geometry is too large to expand.                                        *)
(***************************************************************************)
IndexPath(vSliderValue, uSliderValue) ==
    LET vCount == parseInt(vSliderValue)
        uCount == parseInt(uSliderValue)
        len    == 3 * (2 * uCount * vCount)
        flatIndices == ArrayOf([i \in 1..len |-> i - 1])
    IN  [vCount |-> vCount, uCount |-> uCount, len |-> len,
         indices |-> Uint16Array(flatIndices)]

(***************************************************************************)
(* CreateSurfaceData(data) of the untextured variant, model.js lines       *)
(* 240-362: the same lattice, faces and weighted normals, computed on      *)
(* vertexArray = vertexGrid.flat(); a FlatVertex holds a position and a    *)
(* normal only, and data receives positions, normals and indices.          *)
(***************************************************************************)
\* variant: the x and y of the position passed in each other's place
UntexturedFlatVertex_SwapXY(px, py, pz, nx, ny, nz) ==
    [x |-> py, y |-> px, z |-> pz, nx |-> nx, ny |-> ny, nz |-> nz]

\* new FlatVertex(px, py, pz, nx, ny, nz)
UntexturedFlatVertex(px, py, pz, nx, ny, nz) ==
    [x |-> px, y |-> py, z |-> pz, nx |-> nx, ny |-> ny, nz |-> nz]

\* the push of one corner: p = vertexArray[cornerIdx], a FlatVertex with the
\* face normal, and idxCounter++
UntexturedPush(acc, p, faceNormal) ==
    [flatVertices |-> Append(acc.flatVertices,
                             UntexturedFlatVertex(p[1], p[2], p[3],
                                                  faceNormal[1], faceNormal[2], faceNormal[3])),
     flatIndices  |-> Append(acc.flatIndices, acc.idxCounter),
     idxCounter   |-> acc.idxCounter + 1]

\* [iA, iB, iC].forEach(cornerIdx => ...)
RECURSIVE UntexturedCorners(_, _, _, _, _)
UntexturedCorners(acc, face, c, vertexArray, faceNormal) ==
    IF c > 3 THEN acc
    ELSE UntexturedCorners(UntexturedPush(acc, At(vertexArray, face[c]), faceNormal),
                           face, c + 1, vertexArray, faceNormal)

\* the body of faces.forEach(([iA, iB, iC]) => ...): the face normal is the
\* normalized sum of the three weighted-average vertex normals
UntexturedExpandFace(acc, face, vertexArray, normalizedNormals) ==
    UntexturedCorners(acc, face, 1, vertexArray,
        normalize(addVectors(addVectors(At(normalizedNormals, face[1]),
                                        At(normalizedNormals, face[2])),
                             At(normalizedNormals, face[3]))))

\* faces.forEach: the iterations for faces lo .. hi-1, in order
RECURSIVE UntexturedExpandLoop(_, _, _, _, _, _)
UntexturedExpandLoop(acc, faces, lo, hi, vertexArray, normalizedNormals) ==
    IF Computed(acc) /\ hi <= lo THEN acc
    ELSE IF hi = lo + 1
         THEN UntexturedExpandFace(acc, At(faces, lo), vertexArray, normalizedNormals)
    ELSE UntexturedExpandLoop(
             UntexturedExpandLoop(acc, faces, lo, (lo + hi) \div 2, vertexArray,
                                  normalizedNormals),
             faces, (lo + hi) \div 2, hi, vertexArray, normalizedNormals)

\* the body of flatVertices.forEach((fv, i) => { positions[3*i+0] = fv.x; ... })
UntexturedPackVertex(fv, i, arrs) ==
    [positions |-> [arrs.positions EXCEPT ![3 * i + 0 + 1] = Fround(fv.x),
                                          ![3 * i + 1 + 1] = Fround(fv.y),
                                          ![3 * i + 2 + 1] = Fround(fv.z)],
     normals   |-> [arrs.normals EXCEPT ![3 * i + 0 + 1] = Fround(fv.nx),
                                        ![3 * i + 1 + 1] = Fround(fv.ny),
                                        ![3 * i + 2 + 1] = Fround(fv.nz)]]

\* flatVertices.forEach: the iterations for i in lo .. hi-1, in order
RECURSIVE UntexturedPackLoop(_, _, _, _)
UntexturedPackLoop(flatVertices, lo, hi, arrs) ==
    IF Computed(arrs) /\ hi <= lo THEN arrs
    ELSE IF hi = lo + 1 THEN UntexturedPackVertex(At(flatVertices, lo), lo, arrs)
    ELSE UntexturedPackLoop(flatVertices, (lo + hi) \div 2, hi,
                            UntexturedPackLoop(flatVertices, lo, (lo + hi) \div 2, arrs))

\* 10. data.positions, data.normals, data.indices (with the locals of the
\* call); data has no tangents and no texcoords
UntexturedReturnData(vCount, uCount, vAngles, uAngles, vertexGrid, faces, normalizedNormals, flat, arrs) ==
    [vCount |-> vCount, uCount |-> uCount,
     vAngles |-> vAngles, uAngles |-> uAngles,
     vertexGrid |-> vertexGrid, faces |-> faces,
     normalizedNormals |-> normalizedNormals,
     flatVertices |-> flat.flatVertices, flatIndices |-> flat.flatIndices,
     error |-> "none",
     data |-> [positions |-> arrs.positions, normals |-> arrs.normals,
               tangents |-> << >>, texcoords |-> << >>,
               indices |-> Uint16Array(flat.flatIndices)]]

\* 9. Convert flat vertex data into typed arrays
UntexturedTypedArrays(vCount, uCount, vAngles, uAngles, vertexGrid, faces, normalizedNormals, flat) ==
    UntexturedReturnData(vCount, uCount, vAngles, uAngles, vertexGrid, faces,
                         normalizedNormals, flat,
                         UntexturedPackLoop(flat.flatVertices, 0, Len(flat.flatVertices),
                             [positions |-> Float32Zeros(Len(flat.flatVertices) * 3),
                              normals   |-> Float32Zeros(Len(flat.flatVertices) * 3)]))

\* 8. For Flat Shading
UntexturedFlatShading(vCount, uCount, vAngles, uAngles, vertexGrid, vertexArray, faces, normalizedNormals) ==
    UntexturedTypedArrays(vCount, uCount, vAngles, uAngles, vertexGrid, faces,
                          normalizedNormals,
                          UntexturedExpandLoop([flatVertices |-> << >>, flatIndices |-> << >>,
                                                idxCounter |-> 0],
                                               faces, 0, Len(faces), vertexArray,
                                               normalizedNormals))

\* 6., 7. Weighted-average vertex normals
UntexturedVertexNormals(vCount, uCount, vAngles, uAngles, vertexGrid, vertexArray, faces) ==
    UntexturedFlatShading(vCount, uCount, vAngles, uAngles, vertexGrid, vertexArray, faces,
                          NormalizedNormals(AccumNormals(vertexArray, faces)))

\* 4., 5. vertexArray = vertexGrid.flat(), then the faces
UntexturedFaceIndices(vCount, uCount, vAngles, uAngles, vertexGrid) ==
    UntexturedVertexNormals(vCount, uCount, vAngles, uAngles, vertexGrid,
                            Flat(vertexGrid), Faces(uCount, vCount))

\* 4. Build a 2D grid of unique vertex positions
UntexturedVertexGrid(vCount, uCount, vAngles, uAngles) ==
    UntexturedFaceIndices(vCount, uCount, vAngles, uAngles, VertexGrid(vAngles, uAngles))

\* 1., 2. slider values, parameter ranges and angle arrays
UntexturedCreateSurfaceData(vSliderValue, uSliderValue) ==
    UntexturedVertexGrid(parseInt(vSliderValue), parseInt(uSliderValue),
                         VAngles(parseInt(vSliderValue)), UAngles(parseInt(uSliderValue)))

(***************************************************************************)
(* CreateSurfaceData(data) of the marker variant, part_000 lines 150-274.  *)
(* Its lattice, faces, normals, paramToUV and typed-array conversion are   *)
(* the statements of part_001 with other local names; the expansion reads  *)
(* the corner tuples by index.                                             *)
(***************************************************************************)
\* .forEach(elem => flatVertices.push(new FlatVertex(elem[0][0], ..., elem[3][1])))
RECURSIVE MarkerPushCorners(_, _, _)
MarkerPushCorners(acc, elems, c) ==
    IF c > Len(elems) THEN acc
    ELSE MarkerPushCorners(
             [flatVertices |-> Append(acc.flatVertices,
                   FlatVertex(elems[c][1][1], elems[c][1][2], elems[c][1][3],
                              elems[c][2][1], elems[c][2][2], elems[c][2][3],
                              elems[c][3][1], elems[c][3][2], elems[c][3][3],
                              elems[c][4][1], elems[c][4][2])),
              flatIndices  |-> Append(acc.flatIndices, acc.idxCounter),
              idxCounter   |-> acc.idxCounter + 1],
             elems, c + 1)

\* sumN, faceNormal, faceTangent and the three corner tuples of one face
MarkerFaceAttributes(acc, pA, pB, pC, faceNormal, faceTangent, uvA, uvB, uvC) ==
    MarkerPushCorners(acc, << << pA, faceNormal, faceTangent, uvA >>,
                              << pB, faceNormal, faceTangent, uvB >>,
                              << pC, faceNormal, faceTangent, uvC >> >>, 1)

MarkerFaceCorners(acc, pA, pB, pC, nA, nB, nC, uvA, uvB, uvC) ==
    MarkerFaceAttributes(acc, pA, pB, pC,
                         normalize(addVectors(addVectors(nA, nB), nC)),
                         normalize(computeFaceTangent(pA, pB, pC, uvA, uvB, uvC)),
                         uvA, uvB, uvC)

\* the body of faces.forEach(([iA, iB, iC]) => ...) for one face
MarkerExpandFace(acc, face, uCount, flatGrid, normalizedNormals, vAngles, uAngles) ==
    MarkerFaceCorners(acc,
        At(flatGrid, face[1]), At(flatGrid, face[2]), At(flatGrid, face[3]),
        At(normalizedNormals, face[1]), At(normalizedNormals, face[2]),
        At(normalizedNormals, face[3]),
        paramToUV(vAngles, uAngles, face[1] \div (uCount + 1), face[1] % (uCount + 1)),
        paramToUV(vAngles, uAngles, face[2] \div (uCount + 1), face[2] % (uCount + 1)),
        paramToUV(vAngles, uAngles, face[3] \div (uCount + 1), face[3] % (uCount + 1)))

\* faces.forEach: the iterations for faces lo .. hi-1, in order
RECURSIVE MarkerExpandLoop(_, _, _, _, _, _, _, _, _)
MarkerExpandLoop(acc, faces, lo, hi, uCount, flatGrid, normalizedNormals, vAngles, uAngles) ==
    IF Computed(acc) /\ hi <= lo THEN acc
    ELSE IF hi = lo + 1
         THEN MarkerExpandFace(acc, At(faces, lo), uCount, flatGrid, normalizedNormals,
                               vAngles, uAngles)
    ELSE MarkerExpandLoop(
             MarkerExpandLoop(acc, faces, lo, (lo + hi) \div 2, uCount, flatGrid,
                              normalizedNormals, vAngles, uAngles),
             faces, (lo + hi) \div 2, hi, uCount, flatGrid, normalizedNormals,
             vAngles, uAngles)

\* Flat replicate, then the typed arrays and the five arrays of data
MarkerFlatShading(vCount, uCount, vAngles, uAngles, vertexGrid, flatGrid, faces, normalizedNormals) ==
    TypedArrays(vCount, uCount, vAngles, uAngles, vertexGrid, faces, normalizedNormals,
                MarkerExpandLoop([flatVertices |-> << >>, flatIndices |-> << >>,
                                  idxCounter |-> 0],
                                 faces, 0, Len(faces), uCount, flatGrid, normalizedNormals,
                                 vAngles, uAngles))

\* weighted normals
MarkerVertexNormals(vCount, uCount, vAngles, uAngles, vertexGrid, flatGrid, faces) ==
    MarkerFlatShading(vCount, uCount, vAngles, uAngles, vertexGrid, flatGrid, faces,
                      NormalizedNormals(AccumNormals(flatGrid, faces)))

\* Face indices
MarkerFaceIndices(vCount, uCount, vAngles, uAngles, vertexGrid) ==
    MarkerVertexNormals(vCount, uCount, vAngles, uAngles, vertexGrid, Flat(vertexGrid),
                        Faces(uCount, vCount))

\* Build vertex grid
MarkerVertexGrid(vCount, uCount, vAngles, uAngles) ==
    MarkerFaceIndices(vCount, uCount, vAngles, uAngles, VertexGrid(vAngles, uAngles))

MarkerCreateSurfaceData(vSliderValue, uSliderValue) ==
    MarkerVertexGrid(parseInt(vSliderValue), parseInt(uSliderValue),
                     VAngles(parseInt(vSliderValue)), UAngles(parseInt(uSliderValue)))

(***************************************************************************)
(* The application (part_002: init, initGL, draw; part_001: Model).        *)
(***************************************************************************)
VARIABLES
    phase,       \* "load" before init(), "running" after it, "failed" if it gave up
    vSlider,     \* vSlider.value (a decimal string)
    uSlider,     \* uSlider.value
    vValue,      \* vValue.value, the text box paired with vSlider
    uValue,      \* uValue.value, the text box paired with uSlider
    call,        \* the locals and the result of the latest CreateSurfaceData call
    surface,     \* the Model "Surface": its GPU buffers and its count
    lightAngle,  \* the light rotation angle
    frames,      \* number of draw() frames executed
    rebuilds,    \* number of CreateSurfaceData calls made
    events,      \* number of input events delivered to the four resolution controls
    uploads,     \* number of surface.BufferData calls made
    paramU,      \* model.js: the u parameter of the marker sphere
    paramV,      \* model.js: the v parameter of the marker sphere
    scaleCenter, \* model.js: the texture scaling centre, set by draw()
    sphere,      \* model.js: the PointModel "Sphere"
    keys,        \* number of keydown events delivered
    wire,        \* model.js:1-118: the wireframe variant's script and its CreateSurfaceData
    page,        \* which variant's page this is and what init() has set up so far
    scale        \* model.js: scaleSlider.value, scaleValue.value and textureScale

\* the state of the marker sphere of model.js:364-677
markerVars == << paramU, paramV, scaleCenter, sphere, keys >>

vars == << phase, vSlider, uSlider, vValue, uValue, call, surface,
           lightAngle, frames, rebuilds, events, uploads, markerVars, wire, page, scale >>

MaxFrames == 2
MaxRebuilds == 3

\* the values a resolution control can deliver
Counts == 0..MaxCount
CountStrings == { DigitsOf(k) : k \in Counts }

\* CreateSurfaceData for every pair of slider values of the model, evaluated once
SurfaceTable ==
    ArrayOf([k \in 1..((MaxCount + 1) * (MaxCount + 1)) |->
        CreateSurfaceData(DigitsOf((k - 1) \div (MaxCount + 1)),
                          DigitsOf((k - 1) % (MaxCount + 1)))])

CreateSurfaceDataCall(vSliderValue, uSliderValue) ==
    SurfaceTable[parseInt(vSliderValue) * (MaxCount + 1) + parseInt(uSliderValue) + 1]

NoCall == [vCount |-> 0, uCount |-> 0, vAngles |-> << >>, uAngles |-> << >>,
           vertexGrid |-> << >>, faces |-> << >>, normalizedNormals |-> << >>,
           flatVertices |-> << >>, flatIndices |-> << >>, error |-> "none",
           data |-> [positions |-> << >>, normals |-> << >>, tangents |-> << >>,
                     texcoords |-> << >>, indices |-> << >>]]

\* new Model("Surface"): count = 0, empty buffers
NewModel == [created |-> TRUE, count |-> 0, positions |-> << >>, normals |-> << >>,
             tangents |-> << >>, texcoords |-> << >>, indices |-> << >>]

NoModel == [created |-> FALSE, count |-> 0, positions |-> << >>, normals |-> << >>,
            tangents |-> << >>, texcoords |-> << >>, indices |-> << >>]

\* variant: the new data appended to what the buffers already hold
BufferData_Append(model, positions, normals, tangents, texcoords, indices) ==
    [model EXCEPT !.positions = @ \o positions, !.normals = @ \o normals,
                  !.tangents = @ \o tangents, !.texcoords = @ \o texcoords,
                  !.indices = @ \o indices, !.count = Len(indices)]

\* Model.BufferData(positions, normals, tangents, texcoords, indices)
BufferData(model, positions, normals, tangents, texcoords, indices) ==
    [model EXCEPT !.positions = positions, !.normals = normals,
                  !.tangents = tangents, !.texcoords = texcoords,
                  !.indices = indices, !.count = Len(indices)]

\* model.js:375-377: paramU = Math.PI, paramV = 0.0
ParamUStart == PI
ParamVStart == 0

\* the PointModel before new PointModel("Sphere")
NoSphere == [created |-> FALSE, count |-> 0, positions |-> << >>]

\* the page of one variant before init(): no context, no shader program, no
\* trackball, no handler registered, no animation frame requested
PageOf(variant) ==
    [variant |-> variant, gl |-> FALSE, shProgram |-> FALSE, spaceball |-> FALSE,
     handlers |-> FALSE, keydown |-> FALSE, raf |-> FALSE, error |-> "none"]

\* init() ran to its end: context, shader program, trackball, the oninput
\* handlers (and the keydown listener of the marker variant), then
\* requestAnimationFrame(draw)
PageReady(p) ==
    [p EXCEPT !.gl = TRUE, !.shProgram = TRUE, !.spaceball = TRUE,
              !.handlers = TRUE, !.keydown = (p.variant = "marker"), !.raf = TRUE]

\* the ways init() gives up: no context, or initGL throws on the vertex
\* shader, the fragment shader or the link
FailureKinds == { "context", "vertex", "fragment", "link" }

\* variant: init() reports the error but still starts the render loop
PageFailed_StillDraws(p, kind) ==
    [p EXCEPT !.error = kind, !.gl = (kind # "context"), !.raf = TRUE]

\* init() after the catch block of kind has run: the error is shown, return
PageFailed(p, kind) == [p EXCEPT !.error = kind, !.gl = (kind # "context")]

\* a decimal string as the sequence of its characters: digits, and Dot for "."
Dot == 10

\* the digits before the Dot (all of them when there is none)
RECURSIVE IntegerPart(_)
IntegerPart(str) ==
    IF str = << >> \/ Head(str) = Dot THEN << >>
    ELSE << Head(str) >> \o IntegerPart(Tail(str))

\* the digits after the Dot
RECURSIVE FractionPart(_)
FractionPart(str) ==
    IF str = << >> THEN << >>
    ELSE IF Head(str) = Dot THEN Tail(str) ELSE FractionPart(Tail(str))

\* parseFloat of a decimal string
parseFloat(str) ==
    IF str = << >> THEN NaN
    ELSE ParseDigits(IntegerPart(str), 1, 0) * Scale
         + RDiv(ParseDigits(FractionPart(str), 1, 0) * Scale, 10 ^ Len(FractionPart(str)))

\* let textureScale = 1.0, with the scale controls showing str
ScaleOf(str) == [slider |-> str, value |-> str, textureScale |-> 1 * Scale]

\* the wireframe script before any call of its CreateSurfaceData: no implicit
\* global exists, no WireframeModel has been returned
NoWire == [mode |-> "sloppy", globals |-> << >>, model |-> << >>,
           error |-> "none", calls |-> 0]

\* the module-level declarations of the marker sphere, before init()
MarkerInit ==
    /\ paramU = ParamUStart
    /\ paramV = ParamVStart
    /\ scaleCenter = << >>
    /\ sphere = NoSphere
    /\ keys = 0

Init ==
    /\ phase = "load"
    /\ vSlider \in CountStrings
    /\ uSlider \in CountStrings
    /\ vValue = vSlider
    /\ uValue = uSlider
    /\ call = NoCall
    /\ surface = NoModel
    /\ lightAngle = 0
    /\ frames = 0
    /\ rebuilds = 0
    /\ events = 0
    /\ uploads = 0
    /\ MarkerInit
    /\ wire = NoWire
    /\ page = PageOf("textured")
    /\ scale = ScaleOf(<< 1 >>)

\* init() when the context is missing or initGL throws (before the shader
\* program, the surface data and the Model exist): report and return
InitFail ==
    /\ phase = "load"
    /\ phase' = "failed"
    /\ \E kind \in FailureKinds : page' = PageFailed(page, kind)
    /\ UNCHANGED << wire, scale >>
    /\ UNCHANGED << vSlider, uSlider, vValue, uValue, call, surface,
                    lightAngle, frames, rebuilds, events, uploads, markerVars >>

\* init() with a working initGL: CreateSurfaceData, new Model, BufferData,
\* then the handlers are registered and the render loop is started
InitOk ==
    /\ phase = "load"
    /\ call' = CreateSurfaceDataCall(vSlider, uSlider)
    /\ surface' = BufferData(NewModel, call'.data.positions, call'.data.normals,
                             call'.data.tangents, call'.data.texcoords,
                             call'.data.indices)
    /\ rebuilds' = rebuilds + 1
    /\ uploads' = uploads + 1
    /\ phase' = "running"
    /\ page' = PageReady(page)
    /\ UNCHANGED << wire, scale >>
    /\ UNCHANGED << vSlider, uSlider, vValue, uValue, lightAngle, frames, events,
                    markerVars >>

\* variant: an event that leaves the resolution as it is causes no rebuild
rebuildSurface_Coalesced(vSliderValue, uSliderValue) ==
    IF parseInt(vSliderValue) = call.vCount /\ parseInt(uSliderValue) = call.uCount
    THEN UNCHANGED << call, surface, rebuilds, uploads >>
    ELSE /\ call' = CreateSurfaceDataCall(vSliderValue, uSliderValue)
         /\ surface' = BufferData(surface, call'.data.positions, call'.data.normals,
                                  call'.data.tangents, call'.data.texcoords,
                                  call'.data.indices)
         /\ rebuilds' = rebuilds + 1
         /\ uploads' = uploads + 1

\* rebuildSurface(): CreateSurfaceData(data), then surface.BufferData(...)
rebuildSurface(vSliderValue, uSliderValue) ==
    /\ call' = CreateSurfaceDataCall(vSliderValue, uSliderValue)
    /\ surface' = BufferData(surface, call'.data.positions, call'.data.normals,
                             call'.data.tangents, call'.data.texcoords,
                             call'.data.indices)
    /\ rebuilds' = rebuilds + 1
    /\ uploads' = uploads + 1

\* vSlider.oninput: the user moved the slider to val
VSliderInput(val) ==
    /\ page.handlers /\ rebuilds < MaxRebuilds
    /\ vSlider' = val
    /\ vValue' = vSlider'
    /\ rebuildSurface(vSlider', uSlider)
    /\ events' = events + 1
    /\ UNCHANGED << wire, page, scale >>
    /\ UNCHANGED << uSlider, uValue, phase, lightAngle, frames, markerVars >>

\* variant: the rebuild of a text-box edit runs before the slider is synchronised
VValueInput_Stale(val) ==
    /\ page.handlers /\ rebuilds < MaxRebuilds
    /\ vValue' = val
    /\ vSlider' = vValue'
    /\ rebuildSurface(vSlider, uSlider)
    /\ events' = events + 1
    /\ UNCHANGED << wire, page, scale >>
    /\ UNCHANGED << uSlider, uValue, phase, lightAngle, frames, markerVars >>

\* vValue.oninput: the user typed val into the text box
VValueInput(val) ==
    /\ page.handlers /\ rebuilds < MaxRebuilds
    /\ vValue' = val
    /\ vSlider' = vValue'
    /\ rebuildSurface(vSlider', uSlider)
    /\ events' = events + 1
    /\ UNCHANGED << wire, page, scale >>
    /\ UNCHANGED << uSlider, uValue, phase, lightAngle, frames, markerVars >>

\* variant: the slider handler rebuilds without updating its text box
USliderInput_NoSync(val) ==
    /\ page.handlers /\ rebuilds < MaxRebuilds
    /\ uSlider' = val
    /\ rebuildSurface(vSlider, uSlider')
    /\ events' = events + 1
    /\ UNCHANGED << wire, page, scale >>
    /\ UNCHANGED << vSlider, vValue, uValue, phase, lightAngle, frames, markerVars >>

\* uSlider.oninput
USliderInput(val) ==
    /\ page.handlers /\ rebuilds < MaxRebuilds
    /\ uSlider' = val
    /\ uValue' = uSlider'
    /\ rebuildSurface(vSlider, uSlider')
    /\ events' = events + 1
    /\ UNCHANGED << wire, page, scale >>
    /\ UNCHANGED << vSlider, vValue, phase, lightAngle, frames, markerVars >>

\* uValue.oninput
UValueInput(val) ==
    /\ page.handlers /\ rebuilds < MaxRebuilds
    /\ uValue' = val
    /\ uSlider' = uValue'
    /\ rebuildSurface(vSlider, uSlider')
    /\ events' = events + 1
    /\ UNCHANGED << wire, page, scale >>
    /\ UNCHANGED << vSlider, vValue, phase, lightAngle, frames, markerVars >>

\* the light step 0.001 of part_002
LightStep == RDiv(Scale, 1000)

\* part_002 draw: lightAngle += 0.001; lightAngle %= 2 pi
DrawLight(angle) == (angle + LightStep) % (2 * PI)

\* the light step 0.005 of main.js
MainLightStep == RDiv(5 * Scale, 1000)

\* main.js draw: lightAngle += 0.005; lightAngle %= 2 pi
MainDrawLight(angle) == (angle + MainLightStep) % (2 * PI)

\* draw(): advance the light, surface.Draw(), request the next frame
Draw ==
    /\ page.raf /\ frames < MaxFrames
    /\ lightAngle' = DrawLight(lightAngle)
    /\ frames' = frames + 1
    /\ UNCHANGED << wire, page, scale >>
    /\ UNCHANGED << phase, vSlider, uSlider, vValue, uValue, call, surface, rebuilds,
                    events, uploads, markerVars >>

Next ==
    \/ InitFail
    \/ InitOk
    \/ \E val \in CountStrings : VSliderInput(val)
    \/ \E val \in CountStrings : VValueInput(val)
    \/ \E val \in CountStrings : USliderInput(val)
    \/ \E val \in CountStrings : UValueInput(val)
    \/ Draw

Spec == Init /\ [][Next]_vars

(***************************************************************************)
(* The index path at resolutions beyond the 16-bit range: init() followed  *)
(* by draw frames, with only the index buffer expanded.                    *)
(***************************************************************************)
BigMin == 103
BigMax == 109
BigStrings == { DigitsOf(k) : k \in BigMin..BigMax }

IndexInit ==
    /\ phase = "load"
    /\ vSlider \in BigStrings
    /\ uSlider \in BigStrings
    /\ vValue = vSlider
    /\ uValue = uSlider
    /\ call = NoCall
    /\ surface = NoModel
    /\ lightAngle = 0
    /\ frames = 0
    /\ rebuilds = 0
    /\ events = 0
    /\ uploads = 0
    /\ MarkerInit
    /\ wire = NoWire
    /\ page = PageOf("textured")
    /\ scale = ScaleOf(<< 1 >>)

\* initGL: CreateSurfaceData(data); surface.BufferData(..., data.indices)
IndexInitOk ==
    /\ phase = "load"
    /\ LET ip == IndexPath(vSlider, uSlider)
       IN  /\ call' = [NoCall EXCEPT !.vCount = ip.vCount, !.uCount = ip.uCount]
           /\ surface' = BufferData(NewModel, << >>, << >>, << >>, << >>, ip.indices)
    /\ rebuilds' = rebuilds + 1
    /\ uploads' = uploads + 1
    /\ phase' = "running"
    /\ page' = PageReady(page)
    /\ UNCHANGED << wire, scale >>
    /\ UNCHANGED << vSlider, uSlider, vValue, uValue, lightAngle, frames, events,
                    markerVars >>

IndexNext == IndexInitOk \/ Draw

SpecIndex == IndexInit /\ [][IndexNext]_vars

(***************************************************************************)
(* The marker variant (model.js:364-677 with part_000): a small sphere is  *)
(* moved over the surface with the keys a, d, w, s and is regenerated and  *)
(* uploaded in every frame.                                                *)
(***************************************************************************)
MaxKeys == 96
MaxMarkerKeys == 2

\* paramTo3D(u, v): the corrugated-sphere point at the marker's parameters
paramTo3D(u, v) == SurfacePoint(u, v)

\* paramToTexCoord(u, v) == [u / (2 pi), (v + pi/2) / pi]
paramToTexCoord(u, v) == << FDiv(u, 2 * PI), FDiv(FAdd(v, PI \div 2), PI) >>

\* let sphereRadius = 0.1
sphereRadius == RDiv(Scale, 10)

\* const u = 20, v = 20 of generateSphere
SphereU == 20
SphereV == 20

sphericalPoint(center, r, theta, phi) ==
    << FAdd(FMul(FMul(r, MathSin(theta)), MathCos(phi)), center[1]),
       FAdd(FMul(r, MathCos(theta)), center[2]),
       FAdd(FMul(FMul(r, MathSin(theta)), MathSin(phi)), center[3]) >>

\* sphericalPoint at theta = i*pi/u, phi = j*2pi/v for every i in 0..u and
\* j in 0..v: theta2 of row i is theta1 of row i+1 and phi2 of column j is phi1
\* of column j+1, so each point the quads share is evaluated once
SphereLattice(center, radius) ==
    ArrayOf([k \in 1..((SphereU + 1) * (SphereV + 1)) |->
        sphericalPoint(center, radius,
                       RDiv(((k - 1) \div (SphereV + 1)) * PI, SphereU),
                       RDiv(((k - 1) % (SphereV + 1)) * 2 * PI, SphereV))])

\* sphericalPoint(center, radius, i*pi/u, j*2pi/v)
LatticePoint(lattice, i, j) == lattice[i * (SphereV + 1) + j + 1]

\* variant: the second triangle of a quad is not pushed
PushQuad_OneTriangle(vertices, p1, p2, p3, p4) == vertices \o (p1 \o p2 \o p3)

\* vertices.push(p1, p2, p3) for triangle 1, vertices.push(p2, p4, p3) for triangle 2
PushQuad(vertices, p1, p2, p3, p4) == vertices \o (p1 \o p2 \o p3 \o p2 \o p4 \o p3)

\* the body of the inner loop: the quad between theta1, theta2 and phi1, phi2
SphereQuad(vertices, lattice, i, j) ==
    PushQuad(vertices,
             LatticePoint(lattice, i, j),
             LatticePoint(lattice, i, j + 1),
             LatticePoint(lattice, i + 1, j),
             LatticePoint(lattice, i + 1, j + 1))

\* for (let j = 0; j < v; j++); vertices is computed before the next iteration
RECURSIVE SphereInner(_, _, _, _)
SphereInner(vertices, lattice, i, j) ==
    IF Len(vertices) >= 0 /\ j >= SphereV THEN vertices
    ELSE SphereInner(SphereQuad(vertices, lattice, i, j), lattice, i, j + 1)

\* for (let i = 0; i < u; i++)
RECURSIVE SphereOuter(_, _, _)
SphereOuter(vertices, lattice, i) ==
    IF Len(vertices) >= 0 /\ i >= SphereU THEN vertices
    ELSE SphereOuter(SphereInner(vertices, lattice, i, 0), lattice, i + 1)

\* new Float32Array(array)
Float32Array(array) == ArrayOf([k \in 1..Len(array) |-> Fround(array[k])])

generateSphere(center, radius) ==
    Float32Array(SphereOuter(<< >>, SphereLattice(center, radius), 0))

\* new PointModel("Sphere"): count = 0
NewPointModel == [created |-> TRUE, count |-> 0, positions |-> << >>]

\* PointModel.BufferData(positionArray): count = positionArray.length / 3
PointBufferData(model, positionArray) ==
    [model EXCEPT !.positions = positionArray, !.count = Len(positionArray) \div 3]

\* the page of the marker variant before init()
MarkerPageInit ==
    /\ phase = "load"
    /\ vSlider = DigitsOf(1)
    /\ uSlider \in { DigitsOf(1), DigitsOf(2) }
    /\ vValue = vSlider
    /\ uValue = uSlider
    /\ call = NoCall
    /\ surface = NoModel
    /\ lightAngle = 0
    /\ frames = 0
    /\ rebuilds = 0
    /\ events = 0
    /\ uploads = 0
    /\ MarkerInit
    /\ wire = NoWire
    /\ page = PageOf("marker")
    /\ scale = ScaleOf(<< 1 >>)

\* init() of the marker variant with a working initGL: surface data and
\* buffers, new PointModel, the first scaleCenter; then the handlers are
\* registered and the render loop is started
MarkerInitOk ==
    /\ phase = "load"
    /\ call' = MarkerCreateSurfaceData(vSlider, uSlider)
    /\ surface' = BufferData(NewModel, call'.data.positions, call'.data.normals,
                             call'.data.tangents, call'.data.texcoords,
                             call'.data.indices)
    /\ sphere' = NewPointModel
    /\ scaleCenter' = paramToTexCoord(paramU, paramV)
    /\ rebuilds' = rebuilds + 1
    /\ uploads' = uploads + 1
    /\ phase' = "running"
    /\ page' = PageReady(page)
    /\ UNCHANGED << wire, scale >>
    /\ UNCHANGED << vSlider, uSlider, vValue, uValue, lightAngle, frames, events,
                    paramU, paramV, keys >>

\* the values the texture-scale controls deliver
ScaleStrings == { << 0, Dot, 5 >>, << 2 >> }

\* scaleSlider.oninput: scaleValue.value = scaleSlider.value;
\* textureScale = parseFloat(scaleSlider.value)
ScaleSliderInput(val) ==
    /\ page.handlers
    /\ scale' = [slider |-> val, value |-> val, textureScale |-> parseFloat(val)]
    /\ UNCHANGED << phase, vSlider, uSlider, vValue, uValue, call, surface, lightAngle,
                    frames, rebuilds, events, uploads, markerVars, wire, page >>

\* scaleValue.oninput: scaleSlider.value = scaleValue.value;
\* textureScale = parseFloat(scaleValue.value)
ScaleValueInput(val) ==
    /\ page.handlers
    /\ scale' = [value |-> val, slider |-> val, textureScale |-> parseFloat(val)]
    /\ UNCHANGED << phase, vSlider, uSlider, vValue, uValue, call, surface, lightAngle,
                    frames, rebuilds, events, uploads, markerVars, wire, page >>

\* const step = 0.05
KeyStep == RDiv(5 * Scale, 100)

\* event.key.toLowerCase() on the keys of the model
ToLowerCase(key) ==
    IF key = "A" THEN "a" ELSE IF key = "D" THEN "d"
    ELSE IF key = "W" THEN "w" ELSE IF key = "S" THEN "s" ELSE key

\* variant: case "a" without the wrap to the upper end
KeyA_NoWrap(u) == FSub(u, KeyStep)

\* case "a": paramU -= step; if (paramU < 0) paramU += 2 pi
KeyA(u) == IF FSub(u, KeyStep) < 0 THEN FAdd(FSub(u, KeyStep), 2 * PI) ELSE FSub(u, KeyStep)

\* case "d": paramU += step; if (paramU > 2 pi) paramU -= 2 pi
KeyD(u) == IF FAdd(u, KeyStep) > 2 * PI THEN FSub(FAdd(u, KeyStep), 2 * PI) ELSE FAdd(u, KeyStep)

\* case "w": paramV += step; if (paramV > pi/2) paramV = pi/2
KeyW(v) == IF FAdd(v, KeyStep) > PI \div 2 THEN PI \div 2 ELSE FAdd(v, KeyStep)

\* case "s": paramV -= step; if (paramV < -pi/2) paramV = -pi/2
KeyS(v) == IF FSub(v, KeyStep) < 0 - (PI \div 2) THEN 0 - (PI \div 2) ELSE FSub(v, KeyStep)

\* the keys pressed in the model: the four handled ones, a capital, another key
KeyNames == { "a", "d", "w", "s", "W", "q" }

\* variant: case "d" has no break and falls through into case "w"
KeyDown_FallThrough(key) ==
    /\ page.keydown
    /\ paramU' = IF ToLowerCase(key) = "a" THEN KeyA(paramU)
                 ELSE IF ToLowerCase(key) = "d" THEN KeyD(paramU) ELSE paramU
    /\ paramV' = IF ToLowerCase(key) \in { "w", "d" } THEN KeyW(paramV)
                 ELSE IF ToLowerCase(key) = "s" THEN KeyS(paramV) ELSE paramV
    /\ keys' = keys + 1
    /\ UNCHANGED << wire, page, scale >>
    /\ UNCHANGED << phase, vSlider, uSlider, vValue, uValue, call, surface,
                    lightAngle, frames, rebuilds, events, uploads, scaleCenter, sphere >>

\* the keydown listener
KeyDown(key) ==
    /\ page.keydown
    /\ paramU' = IF ToLowerCase(key) = "a" THEN KeyA(paramU)
                 ELSE IF ToLowerCase(key) = "d" THEN KeyD(paramU) ELSE paramU
    /\ paramV' = IF ToLowerCase(key) = "w" THEN KeyW(paramV)
                 ELSE IF ToLowerCase(key) = "s" THEN KeyS(paramV) ELSE paramV
    /\ keys' = keys + 1
    /\ UNCHANGED << wire, page, scale >>
    /\ UNCHANGED << phase, vSlider, uSlider, vValue, uValue, call, surface,
                    lightAngle, frames, rebuilds, events, uploads, scaleCenter, sphere >>

\* the marker parameters << paramU, paramV >> after at most that many key presses
RECURSIVE MarkerSpots(_)
MarkerSpots(presses) ==
    IF presses = 0 THEN { << ParamUStart, ParamVStart >> }
    ELSE MarkerSpots(presses - 1)
         \cup { << KeyA(s[1]), s[2] >> : s \in MarkerSpots(presses - 1) }
         \cup { << KeyD(s[1]), s[2] >> : s \in MarkerSpots(presses - 1) }
         \cup { << s[1], KeyW(s[2]) >> : s \in MarkerSpots(presses - 1) }
         \cup { << s[1], KeyS(s[2]) >> : s \in MarkerSpots(presses - 1) }

\* the elements of a finite set in some order
RECURSIVE SeqOfSet(_)
SeqOfSet(S) ==
    IF S = {} THEN << >>
    ELSE << CHOOSE x \in S : TRUE >> \o SeqOfSet(S \ { CHOOSE x \in S : TRUE })

SpotList == SeqOfSet(MarkerSpots(MaxMarkerKeys))

\* generateSphere(paramTo3D(paramU, paramV), sphereRadius) for every marker
\* position of the model, evaluated once
SphereTable ==
    ArrayOf([k \in 1..Len(SpotList) |->
        generateSphere(paramTo3D(SpotList[k][1], SpotList[k][2]), sphereRadius)])

generateSphereCall(u, v) ==
    SphereTable[CHOOSE k \in 1..Len(SpotList) : SpotList[k] = << u, v >>]

\* the light step 0.002 of the marker variant
MarkerLightStep == RDiv(2 * Scale, 1000)

\* variant: the light angle is never reduced
MarkerDrawLight_NoWrap(angle) == angle + MarkerLightStep

\* model.js draw: lightAngle += 0.002; if (lightAngle > 2 pi) lightAngle -= 2 pi
MarkerDrawLight(angle) ==
    IF angle + MarkerLightStep > 2 * PI
    THEN angle + MarkerLightStep - 2 * PI
    ELSE angle + MarkerLightStep

\* variant: draw() calls sphere.Draw() without uploading the sphere first
MarkerDraw_NoUpload ==
    /\ page.raf /\ frames < MaxFrames
    /\ lightAngle' = MarkerDrawLight(lightAngle)
    /\ scaleCenter' = paramToTexCoord(paramU, paramV)
    /\ frames' = frames + 1
    /\ UNCHANGED << wire, page, scale >>
    /\ UNCHANGED << phase, vSlider, uSlider, vValue, uValue, call, surface,
                    rebuilds, events, uploads, paramU, paramV, keys, sphere >>

\* draw() of the marker variant: advance the light, scaleCenter from the
\* marker parameters, surface.Draw(), regenerate and upload the sphere,
\* sphere.Draw(), request the next frame
MarkerDraw ==
    /\ page.raf /\ frames < MaxFrames
    /\ lightAngle' = MarkerDrawLight(lightAngle)
    /\ scaleCenter' = paramToTexCoord(paramU, paramV)
    /\ sphere' = PointBufferData(sphere, generateSphereCall(paramU, paramV))
    /\ frames' = frames + 1
    /\ UNCHANGED << wire, page, scale >>
    /\ UNCHANGED << phase, vSlider, uSlider, vValue, uValue, call, surface,
                    rebuilds, events, uploads, paramU, paramV, keys >>

MarkerNext ==
    \/ InitFail
    \/ MarkerInitOk
    \/ \E key \in KeyNames : keys < MaxMarkerKeys /\ KeyDown(key)
    \/ \E val \in ScaleStrings : ScaleSliderInput(val)
    \/ \E val \in ScaleStrings : ScaleValueInput(val)
    \/ MarkerDraw

SpecMarker == MarkerPageInit /\ [][MarkerNext]_vars

\* the keydown listener alone, for long sequences of key presses
KeysNext ==
    \/ MarkerInitOk
    \/ \E key \in KeyNames : keys < MaxKeys /\ KeyDown(key)

\* the same page at one slider setting
KeysInit == MarkerPageInit /\ uSlider = DigitsOf(1)

SpecKeys == KeysInit /\ [][KeysNext]_vars

(***************************************************************************)
(* The wireframe variant (model.js:1-118): CreateSurfaceData() returns a   *)
(* WireframeModel of U and V polylines.  It assigns to eight identifiers   *)
(* that are declared nowhere: in a classic script each assignment creates  *)
(* or overwrites a property of the global object, in strict code (a module *)
(* script) the first one throws a ReferenceError.                          *)
(***************************************************************************)
ScriptModes == { "sloppy", "strict" }

\* the angle array: count pushes of deg2rad(degMin + i * step), then deg2rad(degMax)
WireAngles(count, degMin, degMax) ==
    ArrayOf([i \in 1..count |->
                deg2rad(DegAt(degMin, i - 1, DegStep(degMax - degMin, count)))])
        \o << deg2rad(degMax) >>

\* one U polyline: x, y, z for every uRad at a fixed vRad
UPolyline(vRad, uVerticesArr) ==
    Flat(ArrayOf([k \in 1..Len(uVerticesArr) |-> SurfacePoint(uVerticesArr[k], vRad)]))

\* one V polyline: x, y, z for every vRad at a fixed uRad
VPolyline(uRad, vVerticesArr) ==
    Flat(ArrayOf([k \in 1..Len(vVerticesArr) |-> SurfacePoint(uRad, vVerticesArr[k])]))

\* the WireframeModel filled by the two forEach loops
WireframeModel(vVerticesArr, uVerticesArr) ==
    [uPolylines |-> ArrayOf([iv \in 1..Len(vVerticesArr) |->
                                UPolyline(vVerticesArr[iv], uVerticesArr)]),
     vPolylines |-> ArrayOf([iu \in 1..Len(uVerticesArr) |->
                                VPolyline(uVerticesArr[iu], vVerticesArr)])]

\* the identifiers assigned without a declaration, as properties of the global object
WireGlobals(vVerticesNumber, uVerticesNumber) ==
    [vVerticesNumber |-> vVerticesNumber, maxV |-> 90, minV |-> 0 - 90,
     stepV |-> DegStep(180, vVerticesNumber),
     uVerticesNumber |-> uVerticesNumber, minU |-> 0, maxU |-> 360,
     stepU |-> DegStep(360, uVerticesNumber)]

\* CreateSurfaceData() of the wireframe variant
WireCreateSurfaceData(vSliderValue, uSliderValue, w) ==
    IF w.mode = "strict"
    THEN [w EXCEPT !.error = "ReferenceError", !.calls = @ + 1]
    ELSE [w EXCEPT !.globals = WireGlobals(parseInt(vSliderValue), parseInt(uSliderValue)),
                   !.model = WireframeModel(WireAngles(parseInt(vSliderValue), 0 - 90, 90),
                                            WireAngles(parseInt(uSliderValue), 0, 360)),
                   !.calls = @ + 1]

WireInit ==
    /\ phase = "load"
    /\ vSlider \in CountStrings
    /\ uSlider \in CountStrings
    /\ vValue = vSlider
    /\ uValue = uSlider
    /\ call = NoCall
    /\ surface = NoModel
    /\ lightAngle = 0
    /\ frames = 0
    /\ rebuilds = 0
    /\ events = 0
    /\ uploads = 0
    /\ MarkerInit
    /\ wire \in { [NoWire EXCEPT !.mode = m] : m \in ScriptModes }
    /\ page = PageOf("wireframe")
    /\ scale = ScaleOf(<< 1 >>)

\* one invocation of CreateSurfaceData() at the slider values vs, us
WireCall(vs, us) ==
    /\ wire.calls < MaxRebuilds
    /\ vSlider' = vs
    /\ uSlider' = us
    /\ wire' = WireCreateSurfaceData(vSlider', uSlider', wire)
    /\ UNCHANGED << phase, vValue, uValue, call, surface, lightAngle, frames,
                    rebuilds, events, uploads, markerVars, page, scale >>

WireNext == \E vs \in CountStrings : \E us \in CountStrings : WireCall(vs, us)

SpecWire == WireInit /\ [][WireNext]_vars

\* the variants with a shaded surface and a light
LightVariants == { "untextured", "textured", "marker" }

(***************************************************************************)
(* The three pages that build the corrugated sphere, each started with     *)
(* its own CreateSurfaceData: part_001 (textured), part_000 (marker) and   *)
(* model.js:240-362 (untextured, with main.js).                            *)
(***************************************************************************)
\* Model.BufferData(positions, normals, indices) of model.js:141-196
UntexturedBufferData(model, positions, normals, indices) ==
    [model EXCEPT !.positions = positions, !.normals = normals,
                  !.indices = indices, !.count = Len(indices)]

\* init() of main.js with a working initGL: CreateSurfaceData of model.js, new
\* Model, BufferData; then the handlers and the render loop
UntexturedInitOk ==
    /\ phase = "load"
    /\ call' = UntexturedCreateSurfaceData(vSlider, uSlider)
    /\ surface' = UntexturedBufferData(NewModel, call'.data.positions, call'.data.normals,
                                       call'.data.indices)
    /\ rebuilds' = rebuilds + 1
    /\ uploads' = uploads + 1
    /\ phase' = "running"
    /\ page' = PageReady(page)
    /\ UNCHANGED << vSlider, uSlider, vValue, uValue, lightAngle, frames, events,
                    markerVars, wire, scale >>

VariantsInit ==
    /\ phase = "load"
    /\ vSlider \in CountStrings
    /\ uSlider \in CountStrings
    /\ vValue = vSlider
    /\ uValue = uSlider
    /\ call = NoCall
    /\ surface = NoModel
    /\ lightAngle = 0
    /\ frames = 0
    /\ rebuilds = 0
    /\ events = 0
    /\ uploads = 0
    /\ MarkerInit
    /\ wire = NoWire
    /\ page \in { PageOf(v) : v \in LightVariants }
    /\ scale = ScaleOf(<< 1 >>)

VariantsNext ==
    \/ page.variant = "textured" /\ InitOk
    \/ page.variant = "marker" /\ MarkerInitOk
    \/ page.variant = "untextured" /\ UntexturedInitOk

SpecVariants == VariantsInit /\ [][VariantsNext]_vars

(***************************************************************************)
(* The light angle over many frames: the light update of each variant's    *)
(* draw(), applied frame after frame from lightAngle = 0.                  *)
(***************************************************************************)
MaxLightFrames == 6500

LightInit ==
    /\ phase = "load"
    /\ vSlider = DigitsOf(1)
    /\ uSlider = DigitsOf(1)
    /\ vValue = vSlider
    /\ uValue = uSlider
    /\ call = NoCall
    /\ surface = NoModel
    /\ lightAngle = 0
    /\ frames = 0
    /\ rebuilds = 0
    /\ events = 0
    /\ uploads = 0
    /\ MarkerInit
    /\ wire = NoWire
    /\ page \in { PageOf(v) : v \in LightVariants }
    /\ scale = ScaleOf(<< 1 >>)

\* the light update of one frame of the page's draw()
LightFrame ==
    /\ frames < MaxLightFrames
    /\ lightAngle' = IF page.variant = "marker" THEN MarkerDrawLight(lightAngle)
                     ELSE IF page.variant = "textured" THEN DrawLight(lightAngle)
                     ELSE MainDrawLight(lightAngle)
    /\ frames' = frames + 1
    /\ UNCHANGED << phase, vSlider, uSlider, vValue, uValue, call, surface,
                    rebuilds, events, uploads, markerVars, wire, page, scale >>

SpecLight == LightInit /\ [][LightFrame]_vars

(***************************************************************************)
(* Properties.                                                             *)
(***************************************************************************)
\* a CreateSurfaceData call has been made with a resolution of at least 1 x 1
ValidCall == phase = "running" /\ call.uCount >= 1 /\ call.vCount >= 1

\* the flat-expanded vertex count of the latest call's resolution
FlatCount == 6 * call.uCount * call.vCount

\* data.indices of the latest call, as BufferData handed it to the index buffer
IndexBuffer == surface.indices

\* C1: for every resolution with uCount >= 1 and vCount >= 1, CreateSurfaceData
\* builds exactly 2*uCount*vCount triangles and emits exactly 6*uCount*vCount
\* flat-expanded vertices.
C1_VertexCount ==
    ValidCall =>
        /\ Len(call.faces) = 2 * call.uCount * call.vCount
        /\ Len(call.flatVertices) = 6 * call.uCount * call.vCount

C1_Witness ==
    /\ ValidCall /\ call.uCount = 3 /\ call.vCount = 2
    /\ Len(call.faces) = 12 /\ Len(call.flatVertices) = 36

\* C2: for every resolution with uCount >= 1 and vCount >= 1, the index array
\* returned by CreateSurfaceData equals [0, 1, ..., N-1], N being the
\* flat-expanded vertex count.
C2_IndexIdentity ==
    ValidCall => IndexBuffer = [i \in 1..FlatCount |-> i - 1]

\* C3: cells are visited in row-major order (iv outer, iu inner) and cell
\* (iv, iu) emits exactly the triangles (i0, i2, i1) then (i1, i2, i3), with
\* index(iv, iu) = iv*(uCount+1) + iu.
C3_Triangulation ==
    ValidCall =>
        /\ Len(call.faces) = 2 * call.uCount * call.vCount
        /\ \A iv \in 0..(call.vCount - 1) : \A iu \in 0..(call.uCount - 1) :
             LET cell == iv * call.uCount + iu
                 i0 == iv * (call.uCount + 1) + iu
                 i1 == iv * (call.uCount + 1) + (iu + 1)
                 i2 == (iv + 1) * (call.uCount + 1) + iu
                 i3 == (iv + 1) * (call.uCount + 1) + (iu + 1)
             IN  /\ At(call.faces, 2 * cell) = << i0, i2, i1 >>
                 /\ At(call.faces, 2 * cell + 1) = << i1, i2, i3 >>

C3_Witness ==
    /\ ValidCall /\ call.uCount = 4 /\ call.vCount = 2
    /\ At(call.faces, 0) = << 0, 5, 1 >>
    /\ At(call.faces, 15) = << 9, 13, 14 >>

\* C4: a resolution with uCount < 1 or vCount < 1 is rejected with an
\* InvalidResolution error before any grid construction; no buffers are
\* returned and no degenerate or NaN-valued grid is produced.
C4_InvalidResolutionRejected ==
    (phase = "running" /\ (call.uCount < 1 \/ call.vCount < 1)) =>
        /\ call.error = "InvalidResolution"
        /\ call.vertexGrid = << >>
        /\ surface.count = 0 /\ surface.positions = << >>

\* C5: the expansion emits 3 entries per triangle, in triangle order and
\* corner order: output vertex 3*t+c carries the position and the UV of
\* lattice vertex faces[t][c]; output vertex 0 is lattice point (0, 0).
C5_ExpansionOrder ==
    ValidCall =>
        /\ Len(call.flatVertices) = 3 * Len(call.faces)
        /\ \A t \in 0..(Len(call.faces) - 1) : \A c \in 0..2 :
             LET fv  == At(call.flatVertices, 3 * t + c)
                 idx == At(At(call.faces, t), c)
                 iv  == idx \div (call.uCount + 1)
                 iu  == idx % (call.uCount + 1)
                 uv  == paramToUV(call.vAngles, call.uAngles, iv, iu)
             IN  /\ << fv.x, fv.y, fv.z >> = At(At(call.vertexGrid, iv), iu)
                 /\ << fv.u, fv.v >> = uv
        /\ LET fv0 == At(call.flatVertices, 0)
           IN  << fv0.x, fv0.y, fv0.z >> = At(At(call.vertexGrid, 0), 0)

C5_Witness ==
    /\ ValidCall /\ call.uCount = 4 /\ call.vCount = 2
    /\ LET fv0 == At(call.flatVertices, 0)
           fv1 == At(call.flatVertices, 1)
       IN  /\ << fv0.x, fv0.y, fv0.z >> = << 1966, 0, 0 - Scale >>
           /\ << fv1.x, fv1.y, fv1.z >> = At(At(call.vertexGrid, 1), 0)
           /\ << fv1.u, fv1.v >> = << 0, Scale \div 2 >>

\* C6: the three vertices 3t, 3t+1, 3t+2 of a triangle carry one and the same
\* face normal and one and the same face tangent, and each carries the
\* position and UV of its own corner.
C6_SharedFaceAttributes ==
    ValidCall =>
        \A t \in 0..(Len(call.faces) - 1) :
            LET fA == At(call.flatVertices, 3 * t)
            IN  \A c \in 0..2 :
                  LET fv  == At(call.flatVertices, 3 * t + c)
                      idx == At(At(call.faces, t), c)
                  IN  /\ << fv.nx, fv.ny, fv.nz >> = << fA.nx, fA.ny, fA.nz >>
                      /\ << fv.tx, fv.ty, fv.tz >> = << fA.tx, fA.ty, fA.tz >>
                      /\ << fv.x, fv.y, fv.z >> = At(Flat(call.vertexGrid), idx)
                      /\ << fv.u, fv.v >> =
                            paramToUV(call.vAngles, call.uAngles,
                                      idx \div (call.uCount + 1), idx % (call.uCount + 1))

\* a call whose smoothed corner normals differ inside one triangle
C6_Witness ==
    /\ ValidCall
    /\ \E t \in 0..(Len(call.faces) - 1) :
         LET face == At(call.faces, t)
             fA   == At(call.flatVertices, 3 * t)
         IN  /\ At(call.normalizedNormals, face[1]) # At(call.normalizedNormals, face[2])
             /\ << fA.nx, fA.ny, fA.nz >> # << 0, 0, 0 >>
             /\ << fA.tx, fA.ty, fA.tz >> # << 0, 0, 0 >>

\* C7: for N flat vertices the packed output has positions, normals and
\* tangents of length 3N, texcoords of length 2N and indices of length N, and
\* element k of an attribute array is component (k mod stride) of flat vertex
\* floor(k / stride), unchanged.
C7_PackedLayout ==
    ValidCall =>
        LET len == Len(call.flatVertices)
            pos(fv) == << fv.x, fv.y, fv.z >>
            nor(fv) == << fv.nx, fv.ny, fv.nz >>
            tan(fv) == << fv.tx, fv.ty, fv.tz >>
            tex(fv) == << fv.u, fv.v >>
        IN  /\ Len(call.data.positions) = 3 * len
            /\ Len(call.data.normals) = 3 * len
            /\ Len(call.data.tangents) = 3 * len
            /\ Len(call.data.texcoords) = 2 * len
            /\ Len(call.data.indices) = len
            /\ \A k \in 0..(3 * len - 1) :
                 LET fv == At(call.flatVertices, k \div 3)
                 IN  /\ At(call.data.positions, k) = At(pos(fv), k % 3)
                     /\ At(call.data.normals, k) = At(nor(fv), k % 3)
                     /\ At(call.data.tangents, k) = At(tan(fv), k % 3)
            /\ \A k \in 0..(2 * len - 1) :
                 At(call.data.texcoords, k) = At(tex(At(call.flatVertices, k \div 2)), k % 2)

C7_Witness ==
    /\ ValidCall /\ call.uCount = 4 /\ call.vCount = 2
    /\ Len(call.data.positions) = 144 /\ Len(call.data.texcoords) = 96
    /\ At(call.data.positions, 3) = 5079
    /\ At(call.data.texcoords, 3) = Scale \div 2

\* C8: when the replicated vertex count N = 6*uCount*vCount exceeds what the
\* 16-bit index type can address, the pipeline rejects the request or uses a
\* wider index type; wrapped indices never reach the renderer.
C8_OverflowDetected ==
    (ValidCall /\ FlatCount > IndexModulus) =>
        \/ call.error # "none"
        \/ /\ surface.count = FlatCount
           /\ \A i \in 0..(FlatCount - 1) : At(IndexBuffer, i) = i

\* C9: the index array is a 16-bit unsigned array filled from the counter
\* 0..N-1, so when N = 6*uCount*vCount > 65536 the stored index at position i
\* is i mod 65536: positions i >= 65536 reference a wrong vertex, and no error
\* is raised.
C9_SilentWrap ==
    (ValidCall /\ FlatCount > 65536) =>
        /\ call.error = "none"
        /\ Len(IndexBuffer) = FlatCount
        /\ surface.count = FlatCount
        /\ \A i \in 0..(FlatCount - 1) :
             /\ At(IndexBuffer, i) = i % 65536
             /\ i >= 65536 => At(IndexBuffer, i) # i

C9_Witness ==
    /\ ValidCall /\ FlatCount > 65536
    /\ At(IndexBuffer, 65535) = 65535
    /\ At(IndexBuffer, 65536) = 0

\* C10: the lattice has exactly (vCount+1)*(uCount+1) vertices and the seam
\* is not deduplicated: in every row the columns iu = 0 and iu = uCount are
\* distinct lattice indices with the same 3D position and with texture
\* u-coordinates 0.0 and 1.0.
C10_SeamDistinct ==
    ValidCall =>
        /\ Len(Flat(call.vertexGrid)) = (call.vCount + 1) * (call.uCount + 1)
        /\ Len(call.vertexGrid) = call.vCount + 1
        /\ \A iv \in 0..call.vCount :
             /\ Len(At(call.vertexGrid, iv)) = call.uCount + 1
             /\ iv * (call.uCount + 1) + 0 # iv * (call.uCount + 1) + call.uCount
             /\ At(At(call.vertexGrid, iv), 0) = At(At(call.vertexGrid, iv), call.uCount)
             /\ paramToUV(call.vAngles, call.uAngles, iv, 0)[1] = 0
             /\ paramToUV(call.vAngles, call.uAngles, iv, call.uCount)[1] = 1 * Scale

C10_Witness ==
    /\ ValidCall /\ call.uCount = 4 /\ call.vCount = 2
    /\ At(At(call.vertexGrid, 1), 0) = << 5079, 0, 0 >>
    /\ At(At(call.vertexGrid, 1), 4) = << 5079, 0, 0 >>
    /\ At(At(call.vertexGrid, 1), 2) = << 0 - 5079, 0, 0 >>

\* C11: for every resolution uCount, vCount >= 1 both texture coordinates of
\* every emitted vertex lie in [0, 1] inclusive; the u-coordinate of lattice
\* column iu is iu/uCount and the v-coordinate of lattice row iv is iv/vCount.
C11_UVRange ==
    ValidCall =>
        /\ \A k \in 0..(Len(call.flatVertices) - 1) :
             LET fv == At(call.flatVertices, k)
             IN  /\ 0 <= fv.u /\ fv.u <= 1 * Scale
                 /\ 0 <= fv.v /\ fv.v <= 1 * Scale
        /\ \A k \in 0..(Len(call.data.texcoords) - 1) :
             0 <= At(call.data.texcoords, k) /\ At(call.data.texcoords, k) <= 1 * Scale
        /\ \A t \in 0..(Len(call.faces) - 1) : \A c \in 0..2 :
             LET fv  == At(call.flatVertices, 3 * t + c)
                 idx == At(At(call.faces, t), c)
             IN  /\ fv.u = RDiv((idx % (call.uCount + 1)) * Scale, call.uCount)
                 /\ fv.v = RDiv((idx \div (call.uCount + 1)) * Scale, call.vCount)

C11_Witness ==
    /\ ValidCall /\ call.uCount = 3 /\ call.vCount = 4
    /\ \E k \in 0..(Len(call.flatVertices) - 1) :
         /\ At(call.flatVertices, k).u = 1365
         /\ At(call.flatVertices, k).v = 3 * 1024
    /\ \E k \in 0..(Len(call.flatVertices) - 1) : At(call.flatVertices, k).u = 1 * Scale
    /\ \E k \in 0..(Len(call.flatVertices) - 1) : At(call.flatVertices, k).v = 0

C13_RebuildPerEvent ==
    /\ phase # "running" => (rebuilds = 0 /\ uploads = 0 /\ events = 0)
    /\ phase = "running" => (rebuilds = 1 + events /\ uploads = rebuilds)

\* two input events, one of them repeating the current value, and a frame
C13_Witness ==
    /\ phase = "running" /\ events = 2 /\ rebuilds = 3 /\ uploads = 3
    /\ frames = 1

\* a vector of magnitude 1 up to the rounding of the fixed-point components
IsUnit(v) == length(v) \in (Scale - 4)..(Scale + 4)

\* C14: every output normal and every output tangent has magnitude 1 (within
\* the rounding tolerance), except where it is one of the explicit fallback
\* constants of the degenerate cases, the normal (0, 0, 1) and the tangent
\* (1, 0, 0).
C14_UnitLength ==
    ValidCall =>
        \A k \in 0..(Len(call.flatVertices) - 1) :
            LET fv == At(call.flatVertices, k)
            IN  /\ \/ IsUnit(<< fv.nx, fv.ny, fv.nz >>)
                   \/ << fv.nx, fv.ny, fv.nz >> = << 0, 0, 1 * Scale >>
                /\ \/ IsUnit(<< fv.tx, fv.ty, fv.tz >>)
                   \/ << fv.tx, fv.ty, fv.tz >> = << 1 * Scale, 0, 0 >>

\* the area computeFaceNormalAndArea reports for face t of the current call
FaceArea(t) ==
    computeFaceNormalAndArea(At(Flat(call.vertexGrid), At(call.faces, t)[1]),
                             At(Flat(call.vertexGrid), At(call.faces, t)[2]),
                             At(Flat(call.vertexGrid), At(call.faces, t)[3])).area

LatticeIndices == 0..((call.vCount + 1) * (call.uCount + 1) - 1)

\* C16: for every resolution uCount, vCount >= 1 every lattice vertex is a
\* corner of at least one non-degenerate triangle, so that its accumulated
\* area-weighted normal sum is not the zero vector; this includes the top row
\* and the corner vertex index(vCount, uCount).
C16_EveryVertexTouched ==
    ValidCall =>
        \A idx \in LatticeIndices :
            /\ \E t \in 0..(Len(call.faces) - 1) :
                 /\ \E c \in 1..3 : At(call.faces, t)[c] = idx
                 /\ FaceArea(t) > 0
            /\ At(AccumNormals(Flat(call.vertexGrid), call.faces), idx) # << 0, 0, 0 >>

\* C17: a triangle of area below the threshold is never an error: the call
\* reports none, the triangle leaves the accumulators of its three corners
\* unchanged, and its three output vertices carry the default tangent (1, 0, 0).
C17_DegenerateTriangle ==
    ValidCall =>
        \A t \in 0..(Len(call.faces) - 1) :
            FaceArea(t) = 0 =>
                /\ call.error = "none"
                /\ AccumFace(Flat(call.vertexGrid), At(call.faces, t), call.normalizedNormals)
                     = call.normalizedNormals
                /\ \A c \in 0..2 :
                     LET fv == At(call.flatVertices, 3 * t + c)
                     IN  << fv.tx, fv.ty, fv.tz >> = << 1 * Scale, 0, 0 >>

LargeSphere == generateSphere(<< 1 * Scale, 0 - Scale, 0 >>, 2 * Scale)

\* C15: generateSphere always uses the fixed 20 x 20 subdivision with two
\* triangles per cell, whatever the centre, the radius and the surface
\* resolution: it returns 800 triangles = 2400 vertices = 7200 floats, and
\* the PointModel's count is 2400 after every BufferData of its result (and 0
\* before the first).
C15_SphereSize ==
    /\ (phase = "running" /\ frames = 0) => (sphere.count = 0 /\ sphere.positions = << >>)
    /\ (phase = "running" /\ frames >= 1) =>
          /\ Len(sphere.positions) = 7200
          /\ Len(sphere.positions) = 9 * 2 * SphereU * SphereV
          /\ sphere.count = 2400
          /\ Len(LargeSphere) = Len(sphere.positions)

\* two frames with the marker moved in between, at the second slider value
C15_Witness ==
    /\ phase = "running" /\ frames = 2 /\ keys = 2
    /\ uSlider = << 2 >>
    /\ paramU = ParamUStart + KeyStep /\ paramV = 0 - KeyStep
    /\ sphere.count = 2400
    /\ Len(sphere.positions) = 7200

\* C20: starting from paramU = pi, paramV = 0, after any sequence of keydown
\* events paramU is within [0, 2 pi] and paramV within [-pi/2, pi/2], so the
\* scale centre paramToTexCoord(paramU, paramV) a frame computes, and the one
\* stored, lie in [0, 1] x [0, 1].
C20_MarkerRange ==
    phase = "running" =>
        /\ 0 <= paramU /\ paramU <= 2 * PI
        /\ 0 - (PI \div 2) <= paramV /\ paramV <= PI \div 2
        /\ paramToTexCoord(paramU, paramV)[1] \in 0..(1 * Scale)
        /\ paramToTexCoord(paramU, paramV)[2] \in 0..(1 * Scale)
        /\ scaleCenter[1] \in 0..(1 * Scale)
        /\ scaleCenter[2] \in 0..(1 * Scale)

\* paramU wrapped past 2 pi by 63 presses of d, paramV clamped at pi/2 by 32
\* presses of w
C20_Witness ==
    /\ phase = "running" /\ keys = 95
    /\ paramU = ParamUStart + 63 * KeyStep - 2 * PI
    /\ paramV = PI \div 2
    /\ paramToTexCoord(paramU, paramV)[1] \in 1..(Scale \div 64)
    /\ paramToTexCoord(paramU, paramV)[2] = 1 * Scale

\* C18: an invocation of CreateSurfaceData modifies no state that outlives the
\* call other than the object it fills: after any number of invocations of the
\* wireframe variant no global variable has been written, and the call has
\* completed.
C18_NoSharedState ==
    /\ wire.globals = << >>
    /\ wire.error = "none"

C21_KeyDownFrame ==
    [][\A key \in KeyNames :
          KeyDown(key) =>
              /\ ToLowerCase(key) \in { "a", "d" } => paramU' # paramU /\ paramV' = paramV
              /\ ToLowerCase(key) \in { "w", "s" } => paramU' = paramU
              /\ ToLowerCase(key) \notin { "a", "d", "w", "s" } =>
                     paramU' = paramU /\ paramV' = paramV
              /\ lightAngle' = lightAngle
              /\ scale' = scale
              /\ << vSlider', uSlider', vValue', uValue' >> = << vSlider, uSlider, vValue, uValue >>
              /\ surface' = surface /\ sphere' = sphere /\ call' = call]_vars

\* two keys ("d", then "w") were handled after a frame was drawn and the
\* texture scale was set to 0.5
C21_Witness ==
    /\ keys = 2 /\ frames = 1
    /\ paramU = KeyD(ParamUStart) /\ paramV = KeyW(ParamVStart)
    /\ lightAngle = MarkerLightStep
    /\ scale.textureScale = Scale \div 2
    /\ sphere.count = 2400

C24_FailedInitIsInert ==
    phase = "failed" =>
        /\ page.error \in FailureKinds
        /\ page.gl = (page.error # "context")
        /\ ~page.spaceball /\ ~page.handlers /\ ~page.keydown /\ ~page.raf
        /\ frames = 0 /\ rebuilds = 0 /\ uploads = 0 /\ events = 0 /\ keys = 0
        /\ ~page.shProgram /\ ~surface.created /\ ~sphere.created
        /\ ~ENABLED MarkerNext

\* initGL threw the link error: the context exists, nothing else does
C24_Witness ==
    /\ phase = "failed" /\ page.error = "link" /\ page.gl
    /\ surface = NoModel /\ sphere = NoSphere /\ frames = 0

\* C25: whenever draw() executes, initialization has completed: the context and
\* the shader program exist, the surface Model exists and BufferData has filled
\* it at least once, the trackball has been created, and in the marker variant
\* the sphere PointModel exists and the frame uploads the sphere generated at
\* the current marker position before sphere.Draw() uses it.
C25_DrawAfterInit ==
    [][frames' # frames =>
          /\ phase = "running" /\ page.gl /\ page.shProgram /\ page.spaceball
          /\ surface.created /\ uploads >= 1 /\ rebuilds >= 1
          /\ surface.count = Len(surface.indices)
          /\ page.variant = "marker" =>
                 /\ sphere.created /\ sphere'.created
                 /\ sphere'.positions = generateSphereCall(paramU, paramV)
                 /\ sphere'.count = 2400 /\ Len(sphere'.positions) = 7200]_vars

\* the second frame, drawn after the marker was moved with "a"
C25_Witness ==
    /\ frames = 2 /\ keys = 1 /\ paramU = KeyA(ParamUStart) /\ paramV = ParamVStart
    /\ page.spaceball /\ page.shProgram /\ uploads = 1
    /\ sphere.positions = generateSphereCall(paramU, paramV)

\* the lattice cells (iv, iu) of the latest call
Lattice == (0..call.vCount) \X (0..call.uCount)

\* C26: for uCount, vCount >= 1 the map index(iv, iu) = iv*(uCount+1) + iu is a
\* bijection from {0..vCount} x {0..uCount} onto 0..(uCount+1)*(vCount+1)-1,
\* the decoding iv = floor(i / (uCount+1)), iu = i mod (uCount+1) of the
\* expansion is its exact inverse, and every index stored in a triangle lies
\* within the bounds of the flattened vertex array.
C26_IndexBijection ==
    ValidCall =>
        /\ { indexOf(call.uCount, c[1], c[2]) : c \in Lattice }
               = 0..((call.uCount + 1) * (call.vCount + 1) - 1)
        /\ \A c \in Lattice : \A d \in Lattice :
               indexOf(call.uCount, c[1], c[2]) = indexOf(call.uCount, d[1], d[2]) => c = d
        /\ \A c \in Lattice :
               /\ indexOf(call.uCount, c[1], c[2]) \div (call.uCount + 1) = c[1]
               /\ indexOf(call.uCount, c[1], c[2]) % (call.uCount + 1) = c[2]
        /\ \A i \in 0..((call.uCount + 1) * (call.vCount + 1) - 1) :
               /\ << i \div (call.uCount + 1), i % (call.uCount + 1) >> \in Lattice
               /\ indexOf(call.uCount, i \div (call.uCount + 1), i % (call.uCount + 1)) = i
        /\ Len(Flat(call.vertexGrid)) = (call.uCount + 1) * (call.vCount + 1)
        /\ \A t \in 1..Len(call.faces) : \A c \in 1..3 :
               call.faces[t][c] \in 0..(Len(Flat(call.vertexGrid)) - 1)

\* at 3 x 4 the last triangle ends in the last lattice index, 19 = index(3, 4)
C26_Witness ==
    /\ ValidCall /\ call.vCount = 3 /\ call.uCount = 4
    /\ At(call.faces, Len(call.faces) - 1)[3] = 19
    /\ indexOf(call.uCount, 3, 4) = 19 /\ 19 \div 5 = 3 /\ 19 % 5 = 4
    /\ Len(Flat(call.vertexGrid)) = 20

\* corner c of triangle t of the latest call: its lattice index, its position
\* and its texture coordinates as the expansion decodes them
CornerIndex(t, c) == At(At(call.faces, t), c)
CornerPosition(t, c) ==
    At(At(call.vertexGrid, CornerIndex(t, c) \div (call.uCount + 1)),
       CornerIndex(t, c) % (call.uCount + 1))
CornerUV(t, c) ==
    paramToUV(call.vAngles, call.uAngles,
              CornerIndex(t, c) \div (call.uCount + 1), CornerIndex(t, c) % (call.uCount + 1))

\* deltaUV1 and deltaUV2 of triangle t
FaceDeltaUV(t, c) ==
    << CornerUV(t, c)[1] - CornerUV(t, 0)[1], CornerUV(t, c)[2] - CornerUV(t, 0)[2] >>

\* the determinant f of triangle t and the tangent computeFaceTangent returns
FaceDeterminant(t) == UVDeterminant(FaceDeltaUV(t, 1), FaceDeltaUV(t, 2))
FaceTangentOf(t) ==
    computeFaceTangent(CornerPosition(t, 0), CornerPosition(t, 1), CornerPosition(t, 2),
                       CornerUV(t, 0), CornerUV(t, 1), CornerUV(t, 2))

\* the u-edge of the cell of triangle t: along row iv for the first triangle
\* of the cell, along row iv + 1 for the second
UEdge(t) ==
    LET iv == (t \div 2) \div call.uCount
        iu == (t \div 2) % call.uCount
        row == At(call.vertexGrid, iv + (t % 2))
    IN  subtractVectors(At(row, iu + 1), At(row, iu))

\* tangent is edge * uCount up to the rounding of the fixed-point products:
\* 1/64 of the component for the rounding of f and 1/f, and uCount * vCount
\* units for the rounding of edge * deltaUV before it is multiplied by 1/f
TangentIsScaledEdge(tangent, edge) ==
    \A k \in 1..3 :
        AbsI(tangent[k] - call.uCount * edge[k])
            <= AbsI(call.uCount * edge[k]) \div 64 + call.uCount * call.vCount + 1

\* C27: for every resolution >= 1 and every triangle, the UV determinant f in
\* computeFaceTangent is -1/(uCount*vCount) and not zero, so the (1, 0, 0)
\* fallback is never taken: the first triangle of a cell has deltaUV1 = (0, dv),
\* deltaUV2 = (du, 0), the second deltaUV1 = (-du, dv), deltaUV2 = (0, dv), with
\* du, dv > 0.  The un-normalized tangent is the cell's u-edge times uCount:
\* (p(iv, iu+1) - p(iv, iu)) * uCount for the first triangle of the cell and
\* (p(iv+1, iu+1) - p(iv+1, iu)) * uCount for the second.
C27_FaceTangent ==
    ValidCall =>
        \A t \in 0..(Len(call.faces) - 1) :
            /\ IF t % 2 = 0
               THEN /\ FaceDeltaUV(t, 1)[1] = 0 /\ FaceDeltaUV(t, 1)[2] > 0
                    /\ FaceDeltaUV(t, 2)[1] > 0 /\ FaceDeltaUV(t, 2)[2] = 0
               ELSE /\ FaceDeltaUV(t, 1)[1] < 0 /\ FaceDeltaUV(t, 1)[2] > 0
                    /\ FaceDeltaUV(t, 2)[1] = 0
                    /\ FaceDeltaUV(t, 2)[2] = FaceDeltaUV(t, 1)[2]
            /\ FaceDeterminant(t) < 0
            /\ AbsI(FaceDeterminant(t) + RDiv(Scale, call.uCount * call.vCount)) <= 1
            /\ ~(AbsI(FaceDeterminant(t)) < 1)
            /\ TangentIsScaledEdge(FaceTangentOf(t), UEdge(t))

\* at 3 x 4: f = -1/12, and the tangent of a first triangle in the middle row
\* is four times its u-edge, which is not the fallback direction
C27_Witness ==
    /\ ValidCall /\ call.vCount = 3 /\ call.uCount = 4
    /\ AbsI(FaceDeterminant(8) + RDiv(Scale, 12)) <= 1
    /\ FaceTangentOf(8) # << 1 * Scale, 0, 0 >>
    /\ UEdge(8) # << 0, 0, 0 >>
    /\ TangentIsScaledEdge(FaceTangentOf(8), UEdge(8))

\* C28: the two textured implementations of CreateSurfaceData (part_001 and
\* part_000) produce identical positions, normals, tangents, texcoords and
\* indices for the same slider values, and the untextured implementation of
\* model.js produces the same positions, normals and indices as they do (and
\* no tangents or texcoords); each page uploads exactly that data.
C28_SameGeometry ==
    phase = "running" =>
        /\ call.data.positions = CreateSurfaceDataCall(vSlider, uSlider).data.positions
        /\ call.data.normals = CreateSurfaceDataCall(vSlider, uSlider).data.normals
        /\ call.data.indices = CreateSurfaceDataCall(vSlider, uSlider).data.indices
        /\ page.variant # "untextured" =>
               /\ call.data.tangents = CreateSurfaceDataCall(vSlider, uSlider).data.tangents
               /\ call.data.texcoords = CreateSurfaceDataCall(vSlider, uSlider).data.texcoords
        /\ page.variant = "untextured" =>
               call.data.tangents = << >> /\ call.data.texcoords = << >>
        /\ surface.positions = call.data.positions /\ surface.normals = call.data.normals
        /\ surface.indices = call.data.indices

\* the untextured page at 3 x 4: 72 flat vertices, the positions and normals
\* of the textured implementation
C28_Witness ==
    /\ phase = "running" /\ page.variant = "untextured"
    /\ call.vCount = 3 /\ call.uCount = 4
    /\ Len(call.data.positions) = 216 /\ Len(call.data.indices) = 72
    /\ call.data.normals = CreateSurfaceDataCall(vSlider, uSlider).data.normals
    /\ call.data.tangents = << >>

====
